---- MODULE Spec2Model ----
(***************************************************************************)
(* Model of the reindexer engine core: NamespaceImpl (items, indexes,      *)
(* replication state, WAL counter, observers), IndexUnordered, and the     *)
(* copy-on-write transaction commit of Namespace.                          *)
(*                                                                         *)
(* A NamespaceImpl is a record; every handler is an operator that takes    *)
(* the namespace record n and the observers' event stream o and returns    *)
(* R(n', o', err, id): the state it leaves behind (also when it throws),   *)
(* the events delivered, the error code and the id reported to the caller. *)
(***************************************************************************)
EXTENDS Integers, Sequences, FiniteSets, TLC

\* ------------------------------------------------------------------ bounds
MaxPK == 2
MaxVal == 1
MaxArr == 1
MaxLsn == 5
MaxTxSteps == 2
MaxServerId == 1
MaxRows == 6

\* ------------------------------------------------------- program constants
kWALStatementItemsThreshold == 5
\* items_.reserve(10000) of a new namespace
kItemsReserve == 10000
maxIndexes == 64

PKs == 1..MaxPK
Vals == 1..MaxVal
ServerIds == 0..MaxServerId

RECURSIVE SeqsUpTo(_)
SeqsUpTo(k) ==
    IF k = 0 THEN {<<>>}
    ELSE LET prev == SeqsUpTo(k - 1)
         IN prev \cup {Append(s, v) : s \in {p \in prev : Len(p) = k - 1}, v \in Vals}

\* values of the array field "arr"
Arrs == SeqsUpTo(MaxArr)

Null == 0
AllRows == 0
EmptyLSN == -1

\* lsn_t: the counter of a WAL record and the id of the server that wrote it;
\* lsn_t() is lsn_t(EmptyLSN, 0)
lsn_t(counter, server) == [counter |-> counter, server |-> server]
UpstreamLSN == 100

ModeUpdate == "ModeUpdate"
ModeInsert == "ModeInsert"
ModeUpsert == "ModeUpsert"
ModeDelete == "ModeDelete"

errOK == "errOK"
errLogic == "errLogic"
errParams == "errParams"
errConflict == "errConflict"
errNamespaceInvalidated == "errNamespaceInvalidated"

\* ------------------------------------------------------------ pure helpers
RECURSIVE Xor(_, _)
Xor(a, b) ==
    IF a = 0 THEN b
    ELSE IF b = 0 THEN a
    ELSE (((a % 2) + (b % 2)) % 2) + 2 * Xor(a \div 2, b \div 2)

RECURSIVE ArrCode(_)
ArrCode(s) == IF s = <<>> THEN 0 ELSE Head(s) + (MaxVal + 1) * ArrCode(Tail(s))

SeqToSet(s) == {s[i] : i \in 1..Len(s)}

\* Payload::GetHash: a hash of the payload's fields under the payload type
\* (an indexed field is a payload field of its own, else it lives in the tuple)
PayloadTypeCode(indexes) ==
    (IF indexes.id # "none" THEN 1 ELSE 0) + (IF indexes.arr # "none" THEN 2 ELSE 0)

\* the values a PK takes: those of the item calls and those of the rows a
\* namespace is filled with
PKCount == IF MaxRows > MaxPK THEN MaxRows ELSE MaxPK

GetHash(pl, indexes) ==
    1 + 4 * ((pl.pk - 1) + PKCount * ArrCode(pl.arr)) + PayloadTypeCode(indexes)

FreeSlot == [isFree |-> TRUE, pk |-> 0, arr |-> <<>>]
Payload(pk, arr) == [isFree |-> FALSE, pk |-> pk, arr |-> arr]

\* ids are 0-based as in the code; items_[id] is the (id+1)-th element
ItemAt(n, id) == n.items[id + 1]
Ids(n) == 0..(Len(n.items) - 1)
exists(n, id) == id \in Ids(n) /\ ~ItemAt(n, id).isFree
LiveIds(n) == {id \in Ids(n) : ~ItemAt(n, id).isFree}

R(n, o, err, id) == [ns |-> n, obs |-> o, err |-> err, id |-> id]

\* -------------------------------------------------------- IndexUnordered
\* idx_map as a total map key -> id set ({} = no bucket) plus empty_ids_
EmptyIndex == [idx_map |-> [k \in Vals \cup (1..PKCount) |-> {}], empty_ids |-> {}]

\* IdSet::Add / IdSet::Erase on a sorted id set
IdSet_Add(ids, id) == ids \cup {id}
IdSet_Erase(ids, id) == ids \ {id}

IndexUnordered_Upsert(idx, key, id) ==
    IF key = Null
    THEN [idx EXCEPT !.empty_ids = IdSet_Add(@, id)]
    ELSE [idx EXCEPT !.idx_map[key] = IdSet_Add(@, id)]

IndexUnordered_Delete(idx, key, id) ==
    IF key = Null
    THEN [idx EXCEPT !.empty_ids = IdSet_Erase(@, id)]
    ELSE IF idx.idx_map[key] = {} THEN idx
    ELSE [idx EXCEPT !.idx_map[key] = IdSet_Erase(@, id)]

\* Index::Upsert / Index::Delete over a VariantArray: per element, an empty
\* array goes to the null key
RECURSIVE Index_UpsertKeys(_, _, _)
Index_UpsertKeys(idx, keys, id) ==
    IF keys = <<>> THEN idx
    ELSE Index_UpsertKeys(IndexUnordered_Upsert(idx, Head(keys), id), Tail(keys), id)

Index_Upsert(idx, keys, id) ==
    IF keys = <<>> THEN IndexUnordered_Upsert(idx, Null, id)
    ELSE Index_UpsertKeys(idx, keys, id)

RECURSIVE Index_DeleteKeys(_, _, _)
Index_DeleteKeys(idx, keys, id) ==
    IF keys = <<>> THEN idx
    ELSE Index_DeleteKeys(IndexUnordered_Delete(idx, Head(keys), id), Tail(keys), id)

Index_Delete(idx, keys, id) ==
    IF keys = <<>> THEN IndexUnordered_Delete(idx, Null, id)
    ELSE Index_DeleteKeys(idx, keys, id)

\* IndexUnordered::SelectKey for CondEq on one key
SelectKey(idx, key) == idx.idx_map[key]

\* ------------------------------------------------------- NamespaceImpl
\* NamespaceImpl::NamespaceImpl(name, observers): only the tuple index
NewNamespace ==
    [items |-> <<>>, free |-> <<>>,
     indexes |-> [id |-> "none", arr |-> "none"],
     idxPk |-> EmptyIndex, idxArr |-> EmptyIndex,
     defs |-> <<>>, pkPos |-> 0, sparseIndexesCount |-> 0, idxComp |-> EmptyIndex,
     slaveMode |-> FALSE, replicatorEnabled |-> FALSE, status |-> "Idle",
     dataHash |-> 0,
     originLSN |-> lsn_t(EmptyLSN, 0), lastUpstreamLSN |-> lsn_t(EmptyLSN, 0),
     serverId |-> 0, serverIdChanged |-> FALSE,
     lsnCounter |-> 0,
     meta |-> "",
     observers |-> FALSE,
     itemsCapacity |-> kItemsReserve,
     readOnly |-> FALSE,
     itemsCount |-> 0,
     optimizationState |-> "NotOptimized", lastUpdateTime |-> TRUE,
     queryCache |-> {}, joinCache |-> {},
     schema |-> ""]

\* markUpdated that leaves the query cache and the join cache as they are
markUpdated_KeepCaches(n, forceOptimizeAllIndexes) ==
    [n EXCEPT !.itemsCount = Len(n.items),
              !.optimizationState =
                  IF forceOptimizeAllIndexes THEN "NotOptimized"
                  ELSE IF @ = "OptimizationCompleted" THEN "OptimizedPartially" ELSE @,
              !.lastUpdateTime = TRUE]

\* markUpdated that leaves optimizationState_ as it is
markUpdated_KeepState(n, forceOptimizeAllIndexes) ==
    [n EXCEPT !.itemsCount = Len(n.items),
              !.queryCache = {}, !.joinCache = {},
              !.lastUpdateTime = TRUE]

\* NamespaceImpl::markUpdated (lastUpdateTime: the time is not zero)
markUpdated(n, forceOptimizeAllIndexes) ==
    [n EXCEPT !.itemsCount = Len(n.items),
              !.optimizationState =
                  IF forceOptimizeAllIndexes THEN "NotOptimized"
                  ELSE IF @ = "OptimizationCompleted" THEN "OptimizedPartially" ELSE @,
              !.queryCache = {}, !.joinCache = {},
              !.lastUpdateTime = TRUE]

\* the context of a call: RdxContext::fromReplication_, LSNs_.originLSN_,
\* NsContext::noLock, NsContext::inTransaction; tx numbers the transaction
\* whose commit issued the call (-1: none)
Ctx(fromReplication, originLSN) ==
    [fromReplication |-> fromReplication, originLSN |-> originLSN,
     noLock |-> FALSE, inTransaction |-> FALSE, tx |-> -1]

\* a local call, a replicated call, and a replicated call without origin LSN
LocalCtx == Ctx(FALSE, EmptyLSN)
Ctxs == {LocalCtx, Ctx(TRUE, UpstreamLSN)}
ItemCtxs == Ctxs \cup {Ctx(TRUE, EmptyLSN)}

\* the record stamped without the server id
Event_NoServer(n, lsn, ctx, type, inTx) ==
    [lsn |-> lsn, server |-> 0, type |-> type, inTx |-> inTx, tx |-> ctx.tx]

\* the record handed to UpdatesObservers::OnWALUpdate / OnModifyItem
Event(n, lsn, ctx, type, inTx) ==
    [lsn |-> lsn, server |-> n.serverId, type |-> type, inTx |-> inTx, tx |-> ctx.tx]

\* UpdatesObservers::OnWALUpdate / OnModifyItem: every attached observer gets
\* the record; with no observer attached nothing is delivered
OnWALUpdate(n, o, event) == IF n.observers THEN Append(o, event) ELSE o

\* Locker::WLock: an invalidated namespace refuses the lock
wLock(n, ctx) == IF ~ctx.noLock /\ n.readOnly THEN errNamespaceInvalidated ELSE errOK

ReplicationRole(n) ==
    IF n.slaveMode /\ ~n.replicatorEnabled THEN "ReplicationReadOnly"
    ELSE IF n.slaveMode /\ n.replicatorEnabled THEN "ReplicationSlave"
    ELSE IF ~n.slaveMode /\ ~n.replicatorEnabled THEN "ReplicationMaster"
    ELSE "ReplicationNone"

checkApplySlaveUpdate(n, fromReplication) ==
    IF n.slaveMode /\ ~n.replicatorEnabled THEN errLogic
    ELSE IF n.slaveMode /\ n.replicatorEnabled
         THEN IF ~fromReplication THEN errLogic
              ELSE IF n.status = "Fatal" THEN errLogic ELSE errOK
    ELSE IF ~n.slaveMode /\ ~n.replicatorEnabled
         THEN IF fromReplication THEN errLogic
              ELSE IF n.status = "Fatal" THEN errLogic ELSE errOK
    ELSE errOK

\* WALTracker::Add: hands out the counter and advances it
wal_Add(n) == [n EXCEPT !.lsnCounter = @ + 1]

setReplLSNs(n, upstreamLSN, originLSN) ==
    [n EXCEPT !.originLSN = originLSN, !.lastUpstreamLSN = upstreamLSN]

\* the origin/upstream LSNs after a record of a local write (lastSelfLSN, which
\* no formula reads, is not kept)
AfterLocalRecord(n, ctx, lsn) ==
    IF ctx.fromReplication THEN n
    ELSE setReplLSNs(n, lsn_t(EmptyLSN, 0), lsn_t(lsn, n.serverId))

processWalRecord(n, o, ctx, type, inTx) ==
    LET lsn == n.lsnCounter
        n1 == wal_Add(n)
    IN R(AfterLocalRecord(n1, ctx, lsn), OnWALUpdate(n, o, Event(n, lsn, ctx, type, inTx)), errOK, -1)

\* createItem that takes the first slot of the items vector whatever it holds
createItem_FirstSlot(n) ==
    IF Len(n.items) > 0
    THEN [ns |-> [n EXCEPT !.free = IF Len(@) > 0 THEN SubSeq(@, 1, Len(@) - 1) ELSE @,
                           !.items[1] = Payload(0, <<>>)],
          id |-> 0]
    ELSE [ns |-> [n EXCEPT !.items = Append(@, Payload(0, <<>>))], id |-> 0]

\* NamespaceImpl::createItem
createItem(n) ==
    IF Len(n.free) > 0
    THEN LET id == n.free[Len(n.free)]
         IN [ns |-> [n EXCEPT !.free = SubSeq(@, 1, Len(@) - 1),
                              !.items[id + 1] = Payload(0, <<>>)],
             id |-> id]
    ELSE [ns |-> [n EXCEPT !.items = Append(@, Payload(0, <<>>)),
                           !.itemsCapacity = IF Len(n.items) < @ THEN @
                                             ELSE IF @ = 0 THEN 1 ELSE 2 * @],
          id |-> Len(n.items)]

\* the smallest id of the PK bucket, as ids_[0] of a sorted id set
MinOf(S) == CHOOSE x \in S : \A y \in S : x <= y

\* findByPK that reads ids_[0] of the first bucket of the index, whatever the key
findByPK_AnyKey(n, pk) ==
    IF n.indexes.id = "none" THEN [err |-> errLogic, id |-> -1, exists |-> FALSE]
    ELSE LET ids == SelectKey(n.idxPk, 1)
         IN IF ids # {} THEN [err |-> errOK, id |-> MinOf(ids), exists |-> TRUE]
            ELSE [err |-> errOK, id |-> -1, exists |-> FALSE]

findByPK(n, pk) ==
    IF n.indexes.id = "none" THEN [err |-> errLogic, id |-> -1, exists |-> FALSE]
    ELSE LET ids == SelectKey(n.idxPk, pk)
         IN IF ids # {} THEN [err |-> errOK, id |-> MinOf(ids), exists |-> TRUE]
            ELSE [err |-> errOK, id |-> -1, exists |-> FALSE]

\* the field loop that upserts the new keys without deleting the old ones
UpsertField_KeepOld(idx, present, oldKeys, newKeys, id, doUpdate) ==
    IF ~present THEN idx
    ELSE IF doUpdate /\ oldKeys = newKeys THEN idx
    ELSE Index_Upsert(idx, newKeys, id)

\* one pass of the field loop of doUpsert over one index
UpsertField(idx, present, oldKeys, newKeys, id, doUpdate) ==
    IF ~present THEN idx
    ELSE IF doUpdate /\ oldKeys = newKeys THEN idx
    ELSE Index_Upsert(IF doUpdate THEN Index_Delete(idx, oldKeys, id) ELSE idx, newKeys, id)

\* ---- the catalog: n.defs[i] is indexes_[i], the tuple index being indexes_[0];
\* n.pkPos is indexesNames_[kPKIndexName] (0: no such entry); n.indexes keeps the
\* type of the indexes of the fields "id" and "arr"
IsComposite(type) == type = "composite"

\* the error code of the LogLevel enum that dropIndex throws
LogError == "LogError"

\* indexesNames_.find(name): the position of the index, 0 when there is none
RECURSIVE PosFrom(_, _, _)
PosFrom(defs, name, i) ==
    IF i > Len(defs) THEN 0
    ELSE IF defs[i].name = name THEN i
    ELSE PosFrom(defs, name, i + 1)

PosOf(n, name) == PosFrom(n.defs, name, 1)

\* an index that owns a payload field: neither sparse nor composite
IsRegular(d) == ~d.isSparse /\ ~IsComposite(d.type)

\* payloadType_->NumFields(): the tuple and a field per regular index
NumFields(n) == 1 + Cardinality({i \in 1..Len(n.defs) : IsRegular(n.defs[i])})

\* getIndexDefinition: the definition an index was made from
DefOf(d) ==
    [name |-> d.name, type |-> d.type, isPK |-> d.isPK, isSparse |-> d.isSparse,
     isArray |-> d.isArray, jsonPaths |-> d.jsonPaths]

\* IndexDef::IsEqual: the definitions agree in every member
IndexDef_IsEqual(a, b) ==
    /\ a.name = b.name /\ a.type = b.type /\ a.jsonPaths = b.jsonPaths
    /\ a.isPK = b.isPK /\ a.isSparse = b.isSparse /\ a.isArray = b.isArray

\* the key of a row in the composite index: the PK when the PK field is one
\* of its fields
CompositeKeys(n, pl) ==
    IF \E i \in 1..Len(n.defs) :
          IsComposite(n.defs[i].type) /\ PosOf(n, "id") \in n.defs[i].fields
    THEN <<pl.pk>> ELSE <<>>

HasComposite(n) == \E i \in 1..Len(n.defs) : IsComposite(n.defs[i].type)

doUpsert(n, item, id, doUpdate) ==
    LET old == ItemAt(n, id)
        h0 == IF doUpdate THEN Xor(n.dataHash, GetHash(old, n.indexes)) ELSE n.dataHash
        pl == Payload(item.pk, item.arr)
    IN [n EXCEPT
          !.idxPk = UpsertField(@, n.indexes.id # "none", <<old.pk>>, <<item.pk>>, id, doUpdate),
          !.idxArr = UpsertField(@, n.indexes.arr # "none", old.arr, item.arr, id, doUpdate),
          !.idxComp = UpsertField(@, HasComposite(n), CompositeKeys(n, old), CompositeKeys(n, pl),
                                  id, doUpdate),
          !.items[id + 1] = pl,
          !.dataHash = Xor(h0, GetHash(pl, n.indexes))]

\* doDelete that frees the slot and leaves the id in the buckets of the indexes
doDelete_KeepIndexes(n, id) ==
    LET pl == ItemAt(n, id)
        n1 == [n EXCEPT
                 !.dataHash = Xor(@, GetHash(pl, n.indexes)),
                 !.items[id + 1] = FreeSlot,
                 !.free = Append(@, id)]
    IN markUpdated(IF Len(n1.free) = Len(n1.items)
                   THEN [n1 EXCEPT !.free = <<>>, !.items = <<>>]
                   ELSE n1, TRUE)

doDelete(n, id) ==
    LET pl == ItemAt(n, id)
        n1 == [n EXCEPT
                 !.dataHash = Xor(@, GetHash(pl, n.indexes)),
                 !.idxPk = IF n.indexes.id # "none" THEN Index_Delete(@, <<pl.pk>>, id) ELSE @,
                 !.idxArr = IF n.indexes.arr # "none" THEN Index_Delete(@, pl.arr, id) ELSE @,
                 !.idxComp = IF HasComposite(n) THEN Index_Delete(@, CompositeKeys(n, pl), id) ELSE @,
                 !.items[id + 1] = FreeSlot,
                 !.free = Append(@, id)]
    IN markUpdated(IF Len(n1.free) = Len(n1.items)
                   THEN [n1 EXCEPT !.free = <<>>, !.items = <<>>]
                   ELSE n1, TRUE)

\* modifyItem that returns early only for an update of a missing item
NothingToModify_UpdateOnly(found, mode) == ~found /\ mode = ModeUpdate

\* the early return of modifyItem: item.setID(-1) and nothing else
NothingToModify(found, mode) ==
    (found /\ mode = ModeInsert) \/ (~found /\ mode = ModeUpdate)

modifyItem(n, o, item, ctx, mode) ==
    IF wLock(n, ctx) # errOK THEN R(n, o, wLock(n, ctx), -1)
    ELSE IF checkApplySlaveUpdate(n, ctx.fromReplication) # errOK THEN R(n, o, errLogic, -1)
    ELSE LET realItem == findByPK(n, item.pk) IN
      IF realItem.err # errOK THEN R(n, o, realItem.err, -1)
      ELSE IF NothingToModify(realItem.exists, mode) THEN R(n, o, errOK, -1)
      ELSE LET created == createItem(n)
               id == IF realItem.exists THEN realItem.id ELSE created.id
               n1 == IF realItem.exists THEN n ELSE created.ns
               lsn == n1.lsnCounter
               n2 == wal_Add(n1)
               n4 == doUpsert(n2, item, id, realItem.exists)
               o1 == IF ~ctx.fromReplication \/ ctx.originLSN # EmptyLSN
                     THEN OnWALUpdate(n, o, Event(n, lsn, ctx, "WalItemModify", ctx.inTransaction))
                     ELSE o
               n5 == IF ctx.fromReplication THEN n4 ELSE setReplLSNs(n4, lsn_t(EmptyLSN, 0), lsn_t(lsn, n.serverId))
           IN R(markUpdated(n5, ~realItem.exists), o1, errOK, id)

\* NamespaceImpl::Delete(Item)
NamespaceImpl_Delete(n, o, item, ctx) ==
    IF wLock(n, ctx) # errOK THEN R(n, o, wLock(n, ctx), -1)
    ELSE IF checkApplySlaveUpdate(n, ctx.fromReplication) # errOK THEN R(n, o, errLogic, -1)
    ELSE LET itItem == findByPK(n, item.pk) IN
      IF itItem.err # errOK THEN R(n, o, itItem.err, -1)
      ELSE IF ~itItem.exists THEN R(n, o, errOK, -1)
      ELSE LET n1 == doDelete(n, itItem.id)
               r == processWalRecord(n1, o, ctx, "WalItemModify", ctx.inTransaction)
           IN R(r.ns, r.obs, errOK, itItem.id)

\* ------------------------------------------------------------- queries
\* a query: filter AllRows or a PK value; the value it sets on field "arr";
\* isExpression / FieldModeSetJson of its update entry; HasLimit / HasOffset
Query(filter, arr, isExpression, setJson, hasLimit, hasOffset) ==
    [filter |-> filter, arr |-> arr, isExpression |-> isExpression, setJson |-> setJson,
     hasLimit |-> hasLimit, hasOffset |-> hasOffset]

RECURSIVE SortedIds(_)
SortedIds(S) == IF S = {} THEN <<>> ELSE <<MinOf(S)>> \o SortedIds(S \ {MinOf(S)})

\* NsSelecter: the ids of the rows the query's filter matches, in id order
Select(n, q) ==
    SortedIds({id \in LiveIds(n) : q.filter = AllRows \/ ItemAt(n, id).pk = q.filter})

\* ItemModifier::Modify for "SET arr = value": the field's index and the
\* payload, then markUpdated(false)
ItemModifier_Modify(n, id, arr) ==
    markUpdated([n EXCEPT
                   !.idxArr = UpsertField(@, n.indexes.arr # "none", ItemAt(n, id).arr, arr, id, TRUE),
                   !.items[id + 1].arr = arr], FALSE)

replicateItem(n, o, id, ctx, statementReplication, oldPlHash) ==
    LET lsn == n.lsnCounter
        n1 == IF statementReplication THEN n ELSE AfterLocalRecord(wal_Add(n), ctx, lsn)
        o1 == IF statementReplication THEN o
              ELSE OnWALUpdate(n, o, Event(n, lsn, ctx, "WalItemModify", ctx.inTransaction))
    IN R([n1 EXCEPT !.dataHash = Xor(Xor(@, oldPlHash), GetHash(ItemAt(n, id), n.indexes))],
         o1, errOK, id)

\* the row loop of NamespaceImpl::Update(Query)
RECURSIVE UpdateRows(_, _, _, _, _, _)
UpdateRows(n, o, ids, q, ctx, statementReplication) ==
    IF ids = <<>> THEN R(n, o, errOK, -1)
    ELSE LET id == Head(ids)
             oldPlHash == GetHash(ItemAt(n, id), n.indexes)
             n1 == ItemModifier_Modify(n, id, q.arr)
             r == replicateItem(n1, o, id, ctx, statementReplication, oldPlHash)
         IN UpdateRows(r.ns, r.obs, Tail(ids), q, ctx, statementReplication)

\* statement replication whatever the limit and the offset of the query
statementReplication_IgnoreLimit(q, count) ==
    ~q.setJson /\ ~q.isExpression /\ count >= kWALStatementItemsThreshold

\* NamespaceImpl::Update(Query): bool statementReplication
statementReplication(q, count) ==
    ~q.setJson /\ ~q.isExpression /\ ~q.hasLimit /\ ~q.hasOffset
    /\ count >= kWALStatementItemsThreshold

\* NamespaceImpl::Update(Query)
NamespaceImpl_UpdateQuery(n, o, q, ctx) ==
    IF wLock(n, ctx) # errOK THEN R(n, o, wLock(n, ctx), -1)
    ELSE IF checkApplySlaveUpdate(n, ctx.fromReplication) # errOK THEN R(n, o, errLogic, -1)
    ELSE IF ctx.fromReplication /\ q.isExpression THEN R(n, o, errLogic, -1)
    ELSE LET ids == Select(n, q)
             r == UpdateRows(n, o, ids, q, ctx, statementReplication(q, Len(ids)))
         IN IF statementReplication(q, Len(ids))
            THEN LET lsn == r.ns.lsnCounter
                 IN R(AfterLocalRecord(wal_Add(r.ns), ctx, lsn),
                      OnWALUpdate(n, r.obs, Event(n, lsn, ctx, "WalUpdateQuery", ctx.inTransaction)),
                      errOK, -1)
            ELSE r

RECURSIVE DeleteRows(_, _)
DeleteRows(n, ids) == IF ids = <<>> THEN n ELSE DeleteRows(doDelete(n, Head(ids)), Tail(ids))

RECURSIVE WalRecords(_, _, _, _, _)
WalRecords(n, o, count, ctx, type) ==
    IF count = 0 THEN R(n, o, errOK, -1)
    ELSE LET r == processWalRecord(n, o, ctx, type, ctx.inTransaction)
         IN WalRecords(r.ns, r.obs, count - 1, ctx, type)

\* NamespaceImpl::Delete(Query)
NamespaceImpl_DeleteQuery(n, o, q, ctx) ==
    IF wLock(n, ctx) # errOK THEN R(n, o, wLock(n, ctx), -1)
    ELSE IF checkApplySlaveUpdate(n, ctx.fromReplication) # errOK THEN R(n, o, errLogic, -1)
    ELSE LET ids == Select(n, q)
             n1 == DeleteRows(n, ids)
         IN IF ~q.hasLimit /\ ~q.hasOffset /\ Len(ids) >= kWALStatementItemsThreshold
            THEN processWalRecord(n1, o, ctx, "WalUpdateQuery", ctx.inTransaction)
            ELSE WalRecords(n1, o, Len(ids), ctx, "WalItemModify")

NamespaceImpl_Truncate(n, o, ctx) ==
    IF wLock(n, ctx) # errOK THEN R(n, o, wLock(n, ctx), -1)
    ELSE IF checkApplySlaveUpdate(n, ctx.fromReplication) # errOK THEN R(n, o, errLogic, -1)
    ELSE LET n1 == [n EXCEPT !.items = <<>>, !.free = <<>>, !.dataHash = 0,
                             !.idxPk = EmptyIndex, !.idxArr = EmptyIndex, !.idxComp = EmptyIndex]
             lsn == n1.lsnCounter
         IN R(markUpdated(AfterLocalRecord(wal_Add(n1), ctx, lsn), TRUE),
              OnWALUpdate(n, o, Event(n, lsn, ctx, "WalUpdateQuery", FALSE)), errOK, -1)

NamespaceImpl_PutMeta(n, o, data, ctx) ==
    IF wLock(n, ctx) # errOK THEN R(n, o, wLock(n, ctx), -1)
    ELSE IF checkApplySlaveUpdate(n, ctx.fromReplication) # errOK THEN R(n, o, errLogic, -1)
    ELSE processWalRecord([n EXCEPT !.meta = data], o, ctx, "WalPutMeta", FALSE)

\* NamespaceImpl::SetSchema: write lock, the schema, the WAL record
NamespaceImpl_SetSchema(n, o, schema, ctx) ==
    IF wLock(n, ctx) # errOK THEN R(n, o, wLock(n, ctx), -1)
    ELSE processWalRecord([n EXCEPT !.schema = schema], o, ctx, "WalSetSchema", FALSE)

\* NamespaceImpl::optimizeIndexes, the optimization timeout elapsed and no
\* writer waiting: the indexes are built and the state is completed
NamespaceImpl_optimizeIndexes(n) ==
    IF n.optimizationState = "OptimizationCompleted" \/ ~n.lastUpdateTime THEN n
    ELSE [n EXCEPT !.optimizationState = "OptimizationCompleted", !.lastUpdateTime = FALSE]

\* NamespaceImpl::getFromJoinCache: whether the pre-result of a join is to
\* be put into the cache (a miss of the cache asks for it)
getFromJoinCache(n, key) ==
    IF n.optimizationState # "OptimizationCompleted" THEN FALSE
    ELSE key \notin n.joinCache

\* NamespaceImpl::putToJoinCache
putToJoinCache(n, key) == [n EXCEPT !.joinCache = @ \cup {key}]

\* JoinedSelector::Process on the right namespace of a join
JoinedSelector_Process(n, key) ==
    IF getFromJoinCache(n, key) THEN putToJoinCache(n, key) ELSE n

\* NsSelecter for a query with a cached total: the count goes to the query cache
NsSelecter_CachedTotal(n, key) == [n EXCEPT !.queryCache = @ \cup {key}]

\* ------------------------------------------------------------ index DDL
\* an index definition: "id" is the scalar PK index, "arr" an array index
IndexDef(name, type) ==
    [name |-> name, type |-> type, isPK |-> (name = "id"), isSparse |-> FALSE,
     isArray |-> (name = "arr"), jsonPaths |-> <<name>>]
IndexNames == {"id", "arr"}
\* the definitions the calls pass: the PK index as a hash, the array index as
\* a hash or a tree
IndexDefs == {IndexDef("id", "hash"), IndexDef("arr", "hash"), IndexDef("arr", "tree")}

\* the keys an item holds for a field
FieldKeys(pl, name) == IF name = "id" THEN <<pl.pk>> ELSE pl.arr

\* the per-row loop of updateItems for an added field: upsert every live row
RECURSIVE UpsertRows(_, _, _, _)
UpsertRows(idx, n, name, rowId) ==
    IF rowId >= Len(n.items) THEN idx
    ELSE UpsertRows(IF ItemAt(n, rowId).isFree THEN idx
                    ELSE Index_Upsert(idx, FieldKeys(ItemAt(n, rowId), name), rowId),
                    n, name, rowId + 1)

RECURSIVE HashRows(_, _, _)
HashRows(h, n, rowId) ==
    IF rowId >= Len(n.items) THEN h
    ELSE HashRows(IF ItemAt(n, rowId).isFree THEN h
                  ELSE Xor(h, GetHash(ItemAt(n, rowId), n.indexes)),
                  n, rowId + 1)

\* updateItems that keeps the old dataHash over the new payload type
updateItems_KeepHash(n, name, deltaFields) ==
    LET filled == IF deltaFields >= 0 THEN UpsertRows(EmptyIndex, n, name, 0) ELSE EmptyIndex
    IN markUpdated([n EXCEPT !.idxPk = IF name = "id" THEN filled ELSE @,
                                !.idxArr = IF name = "arr" THEN filled ELSE @], FALSE)

\* n already carries the new payload type (n.indexes); deltaFields = 1: the
\* field's index is filled, -1: the rows are deleted from it
updateItems(n, name, deltaFields) ==
    LET filled == IF deltaFields >= 0 THEN UpsertRows(EmptyIndex, n, name, 0) ELSE EmptyIndex
    IN markUpdated([n EXCEPT !.idxPk = IF name = "id" THEN filled ELSE @,
                                !.idxArr = IF name = "arr" THEN filled ELSE @,
                                !.dataHash = HashRows(0, n, 0)], FALSE)

\* NamespaceImpl::updateSortedIdxCount: ends with markUpdated(true)
updateSortedIdxCount(n) == markUpdated(n, TRUE)

\* Index::New(indexDef, payloadType_, fields)
NewIndex(indexDef, fields) ==
    [name |-> indexDef.name, type |-> indexDef.type, isPK |-> indexDef.isPK,
     isSparse |-> indexDef.isSparse, isArray |-> indexDef.isArray,
     jsonPaths |-> indexDef.jsonPaths, fields |-> fields]

\* NamespaceImpl::insertIndex
insertIndex(n, newIndex, idxNo) ==
    LET shifted == IF n.pkPos >= idxNo THEN n.pkPos + 1 ELSE n.pkPos
    IN [n EXCEPT
          !.defs = SubSeq(@, 1, idxNo - 1) \o <<newIndex>> \o SubSeq(@, idxNo, Len(@)),
          !.pkPos = IF newIndex.isPK /\ shifted = 0 THEN idxNo ELSE shifted]

\* the type of a field index kept with the payload type
SetFieldType(n, name, type) ==
    IF name \in {"id", "arr"} THEN [n EXCEPT !.indexes[name] = type] ELSE n

\* the row loop of addCompositeIndex
RECURSIVE UpsertCompositeRows(_, _, _)
UpsertCompositeRows(idx, n, rowId) ==
    IF rowId >= Len(n.items) THEN idx
    ELSE UpsertCompositeRows(IF ItemAt(n, rowId).isFree THEN idx
                             ELSE Index_Upsert(idx, CompositeKeys(n, ItemAt(n, rowId)), rowId),
                             n, rowId + 1)

\* the sub-indexes of a composite definition that are array indexes
ArraySubindexes(n, indexDef) ==
    {i \in 1..Len(indexDef.jsonPaths) :
        LET pos == PosOf(n, indexDef.jsonPaths[i])
        IN pos # 0 /\ n.defs[pos].isArray}

\* verifyUpdateCompositeIndex: the sub-indexes that are array indexes and
\* not sparse
ArrayFieldSubindexes(n, indexDef) ==
    {i \in ArraySubindexes(n, indexDef) : ~n.defs[PosOf(n, indexDef.jsonPaths[i])].isSparse}

\* the payload fields of the sub-indexes of a composite definition; a name
\* that is no index and a sparse index are taken by their JSON path
CompositeFields(n, indexDef) ==
    {PosOf(n, indexDef.jsonPaths[i]) : i \in
        {j \in 1..Len(indexDef.jsonPaths) :
            LET pos == PosOf(n, indexDef.jsonPaths[j])
            IN pos # 0 /\ ~(n.defs[pos].isSparse /\ ~n.defs[pos].isArray)}}

\* NamespaceImpl::addCompositeIndex
addCompositeIndex(n, indexDef) ==
    IF ArraySubindexes(n, indexDef) # {} THEN [ns |-> n, err |-> errParams]
    ELSE LET n1 == insertIndex(n, NewIndex(indexDef, CompositeFields(n, indexDef)), Len(n.defs) + 1)
             n2 == [n1 EXCEPT !.idxComp = UpsertCompositeRows(EmptyIndex, n1, 0)]
         IN [ns |-> updateSortedIdxCount(n2), err |-> errOK]

\* no index is refused for the number of payload fields
TooManyIndexes_Never(idxNo) == FALSE

\* addIndex: if (idxNo >= maxIndexes)
TooManyIndexes(idxNo) == idxNo >= maxIndexes

\* a PK index is added whatever the indexes of the namespace
AnotherPK_Ignored(n, indexDef) == FALSE

\* addIndex: currentPKIndex != indexesNames_.end() && opts.IsPK()
AnotherPK(n, indexDef) == n.pkPos # 0 /\ indexDef.isPK

\* NamespaceImpl::addIndex
addIndex(n, indexDef) ==
    LET idxNo == NumFields(n) IN
    IF PosOf(n, indexDef.name) # 0
    THEN IF IndexDef_IsEqual(indexDef, DefOf(n.defs[PosOf(n, indexDef.name)])) THEN [ns |-> n, err |-> errOK]
         ELSE [ns |-> n, err |-> errConflict]
    ELSE IF AnotherPK(n, indexDef) THEN [ns |-> n, err |-> errConflict]
    ELSE IF IsComposite(indexDef.type) THEN addCompositeIndex(n, indexDef)
    ELSE IF TooManyIndexes(idxNo) THEN [ns |-> n, err |-> errConflict]
    ELSE IF indexDef.isSparse
    THEN [ns |-> updateSortedIdxCount(
                     insertIndex([n EXCEPT !.sparseIndexesCount = @ + 1],
                                 NewIndex(indexDef, {}), idxNo)),
          err |-> errOK]
    ELSE [ns |-> updateSortedIdxCount(
                     updateItems(SetFieldType(insertIndex(n, NewIndex(indexDef, {idxNo}), idxNo),
                                              indexDef.name, indexDef.type),
                                 indexDef.name, 1)),
          err |-> errOK]

\* the fields refs of an index after the index at fieldIdx is removed
ShiftFields(d, fieldIdx) ==
    [d EXCEPT !.fields = {IF f < fieldIdx THEN f ELSE f - 1 : f \in @}]

\* dropIndex that shifts the name map before it looks at the composite indexes
dropIndex_ShiftFirst(n, indexDef) ==
    LET fieldIdx == PosOf(n, indexDef.name) IN
    IF fieldIdx = 0 THEN [ns |-> n, err |-> errParams]
    ELSE LET indexToRemove == n.defs[fieldIdx]
             n1 == [n EXCEPT !.sparseIndexesCount = IF indexToRemove.isSparse THEN @ - 1 ELSE @,
                             !.pkPos = IF @ >= fieldIdx THEN @ - 1 ELSE @]
         IN IF \E i \in 1..Len(n.defs) : IsComposite(n.defs[i].type) /\ fieldIdx \in n.defs[i].fields
            THEN [ns |-> n1, err |-> LogError]
            ELSE [ns |-> n1, err |-> errOK]

\* NamespaceImpl::dropIndex
dropIndex(n, indexDef) ==
    LET fieldIdx == PosOf(n, indexDef.name) IN
    IF fieldIdx = 0 THEN [ns |-> n, err |-> errParams]
    ELSE LET indexToRemove == n.defs[fieldIdx]
             n1 == IF indexToRemove.isSparse THEN [n EXCEPT !.sparseIndexesCount = @ - 1] ELSE n
         IN IF \E i \in 1..Len(n.defs) : IsComposite(n.defs[i].type) /\ fieldIdx \in n.defs[i].fields
            THEN [ns |-> n1, err |-> LogError]
            ELSE LET n2 == [n1 EXCEPT
                              !.pkPos = IF indexToRemove.isPK THEN 0
                                        ELSE IF @ >= fieldIdx THEN @ - 1 ELSE @,
                              !.defs = [i \in 1..(Len(@) - 1) |->
                                           ShiftFields(IF i < fieldIdx THEN @[i] ELSE @[i + 1],
                                                       fieldIdx)],
                              !.idxComp = IF IsComposite(indexToRemove.type) THEN EmptyIndex ELSE @]
                     n3 == IF IsRegular(indexToRemove)
                           THEN updateItems(SetFieldType(n2, indexDef.name, "none"), indexDef.name, -1)
                           ELSE n2
                 IN [ns |-> updateSortedIdxCount(n3), err |-> errOK]

\* NamespaceImpl::verifyUpdateIndex, the index being at pos
verifyUpdateIndex(n, indexDef, pos) ==
    IF indexDef.isPK /\ ~n.defs[pos].isPK /\ n.pkPos # 0 THEN errConflict
    ELSE IF indexDef.isArray # n.defs[pos].isArray THEN errParams
    ELSE IF indexDef.isPK /\ indexDef.isArray THEN errParams
    ELSE IF IsComposite(indexDef.type) /\ ArrayFieldSubindexes(n, indexDef) # {} THEN errParams
    ELSE errOK

\* updateIndex after dropIndex returned d
AddAfterDrop(d, indexDef) == IF d.err # errOK THEN d ELSE addIndex(d.ns, indexDef)

\* NamespaceImpl::updateIndex
updateIndex(n, indexDef) ==
    LET pos == PosOf(n, indexDef.name) IN
    IF pos = 0 THEN [ns |-> n, err |-> errParams]
    ELSE IF IndexDef_IsEqual(indexDef, DefOf(n.defs[pos])) THEN [ns |-> n, err |-> errOK]
    ELSE IF verifyUpdateIndex(n, indexDef, pos) # errOK
    THEN [ns |-> n, err |-> verifyUpdateIndex(n, indexDef, pos)]
    ELSE AddAfterDrop(dropIndex(n, indexDef), indexDef)

\* AddIndex / UpdateIndex / DropIndex: write lock, the change, the WAL record
IndexOp(n, o, r, type, ctx) ==
    IF wLock(n, ctx) # errOK THEN R(n, o, wLock(n, ctx), -1)
    ELSE IF r.err # errOK THEN R(r.ns, o, r.err, -1)
    ELSE processWalRecord(r.ns, o, ctx, type, FALSE)

\* NamespaceImpl::AddIndex: a PK index over an array is refused before the lock
NamespaceImpl_AddIndex(n, o, indexDef, ctx) ==
    IF indexDef.isPK /\ indexDef.isArray THEN R(n, o, errParams, -1)
    ELSE IndexOp(n, o, addIndex(n, indexDef), "WalIndexAdd", ctx)
NamespaceImpl_UpdateIndex(n, o, indexDef, ctx) == IndexOp(n, o, updateIndex(n, indexDef), "WalIndexUpdate", ctx)
NamespaceImpl_DropIndex(n, o, indexDef, ctx) == IndexOp(n, o, dropIndex(n, indexDef), "WalIndexDrop", ctx)

\* --------------------------------------------------------- transactions
\* a step: an item with its modify mode, or an update / delete query
ItemStep(mode, pk, arr) == [query |-> FALSE, mode |-> mode, item |-> [pk |-> pk, arr |-> arr]]
QueryStep(type, q) == [query |-> TRUE, type |-> type, q |-> q]

\* the WalInitTransaction record at the head of CommitTransaction
TxInit(n, o, ctx) ==
    LET lsn == n.lsnCounter
        n1 == wal_Add(n)
    IN R(n1,
         OnWALUpdate(n, o, Event(n, lsn, ctx, "WalInitTransaction", TRUE)), errOK, -1)

\* one iteration of the step loop of CommitTransaction
TxStep(n, o, step, ctx) ==
    IF step.query
    THEN IF step.type = "QueryDelete" THEN NamespaceImpl_DeleteQuery(n, o, step.q, ctx)
         ELSE NamespaceImpl_UpdateQuery(n, o, step.q, ctx)
    ELSE IF step.mode = ModeDelete THEN NamespaceImpl_Delete(n, o, step.item, ctx)
         ELSE modifyItem(n, o, step.item, ctx, step.mode)

\* the step loop of CommitTransaction: a step that throws ends it
RECURSIVE TxSteps(_, _, _, _), TxStepsAfter(_, _, _)
TxStepsAfter(r, steps, ctx) ==
    IF r.err # errOK THEN r ELSE TxSteps(r.ns, r.obs, steps, ctx)

TxSteps(n, o, steps, ctx) ==
    IF steps = <<>> THEN R(n, o, errOK, -1)
    ELSE TxStepsAfter(TxStep(n, o, Head(steps), ctx), Tail(steps), ctx)

TxCommit(n, o, ctx) == processWalRecord(n, o, ctx, "WalCommitTransaction", TRUE)

\* the context of the steps without InTransaction()
TxCtx_NoLockOnly(ctx, n) == [ctx EXCEPT !.noLock = TRUE, !.tx = n.lsnCounter]

\* the context of the steps: NsContext::NoLock().InTransaction(); a transaction
\* is named by the LSN of its InitTransaction record
TxCtx(ctx, n) == [ctx EXCEPT !.noLock = TRUE, !.inTransaction = TRUE, !.tx = n.lsnCounter]

\* CommitTransaction after its steps: the CommitTransaction record, unless a
\* step threw
TxAfterSteps(s, c) == IF s.err # errOK THEN s ELSE TxCommit(s.ns, s.obs, c)

\* CommitTransaction after the InitTransaction record
TxAfterInit(i, steps, c) == TxAfterSteps(TxSteps(i.ns, i.obs, steps, c), c)

\* NamespaceImpl::CommitTransaction
NamespaceImpl_CommitTransaction(n, o, steps, ctx) ==
    IF wLock(n, ctx) # errOK THEN R(n, o, wLock(n, ctx), -1)
    ELSE TxAfterInit(TxInit(n, o, TxCtx(ctx, n)), steps, TxCtx(ctx, n))

\* ----------------------------------------------------- replication state
NamespaceImpl_setSlaveMode(n) == [n EXCEPT !.slaveMode = TRUE, !.replicatorEnabled = TRUE]

NamespaceImpl_SetSlaveReplStatus(n, status) == [n EXCEPT !.status = status]

ReplStatuses == {"Idle", "Fatal"}
ConfigRoles == {"ReplicationNone", "ReplicationMaster", "ReplicationSlave"}

\* NamespaceImpl::SetReplLSNs: write lock, setReplLSNs
NamespaceImpl_SetReplLSNs(n, upstreamLSN, originLSN, ctx) ==
    IF wLock(n, ctx) # errOK THEN n ELSE setReplLSNs(n, upstreamLSN, originLSN)

\* the server id is replaced and the role is left as it is
ServerIdChange_KeepRole(n, serverId) ==
    IF n.serverId # serverId THEN [n EXCEPT !.serverId = serverId] ELSE n

\* NamespaceImpl::OnConfigUpdated, the server id of the new configuration
ServerIdChange(n, serverId) ==
    IF n.serverId # serverId
    THEN IF n.itemsCount # 0
         THEN [n EXCEPT !.serverIdChanged = TRUE, !.slaveMode = TRUE,
                        !.replicatorEnabled = FALSE, !.serverId = serverId]
         ELSE [n EXCEPT !.serverId = serverId]
    ELSE n

\* the namespace becomes a master and keeps the LSNs it had as a slave
SwitchToMaster_KeepLSNs(n) ==
    [n EXCEPT !.slaveMode = FALSE, !.replicatorEnabled = FALSE]

\* NamespaceImpl::OnConfigUpdated, the switch of a slave or of a read-only
\* namespace to a master: lsn_t() and lsn_t(wal_.LSNCounter() - 1, serverId_)
SwitchToMaster(n) ==
    [n EXCEPT !.slaveMode = FALSE, !.replicatorEnabled = FALSE,
              !.lastUpstreamLSN = lsn_t(EmptyLSN, 0),
              !.originLSN = lsn_t(n.lsnCounter - 1, n.serverId)]

\* the replication part of NamespaceImpl::OnConfigUpdated
NamespaceImpl_OnConfigUpdated(n, serverId, newRole) ==
    LET n1 == ServerIdChange(n, serverId)
        curRole == ReplicationRole(n1)
    IN IF newRole = curRole THEN n1
       ELSE IF newRole = "ReplicationNone" /\ curRole = "ReplicationMaster" THEN n1
       ELSE IF curRole = "ReplicationReadOnly" /\ n1.serverIdChanged THEN n1
       ELSE IF (curRole = "ReplicationSlave" /\ newRole = "ReplicationMaster")
               \/ curRole = "ReplicationReadOnly"
       THEN SwitchToMaster(n1)
       ELSE n1

\* =================================================== one namespace, its calls
VARIABLES
    ns,      \* the NamespaceImpl
    obs,     \* the events the call delivered to the updates observers, in order
    seen,    \* the LSN of the last event delivered before the call (EmptyLSN: none)
    lastOp   \* the call that has just returned: its name, its fromReplication_ and
             \* origin LSN, its error code; NoOp once the caller has taken the result

\* Namespace: the instances behind the namespace pointer and the threads on it
VARIABLES
    inst,       \* every NamespaceImpl alive, with the threads holding its read lock
    mainNs,     \* Namespace::ns_ (an index of inst)
    nsCopy,     \* Namespace::nsCopy_ (an index of inst, 0: empty)
    hasCopy,    \* Namespace::hasCopy_
    clonerMtx,  \* the holder of Namespace::clonerMtx_ ("none": free)
    pc,         \* where each thread stands in its call
    ptr,        \* the NamespaceImpl pointer each thread has loaded
    res,        \* the error code of each thread's last call
    txn,        \* the transaction under commit: steps, context, steps left
    snap,       \* what the reader's last select saw
    cowPre,     \* the data before the commit in progress
    cowPost     \* the data the commit in progress leads to

\* the query executor: a joined selector at work
VARIABLES
    join        \* the JoinedSelector, the rows of the left namespace it is asked
                \* about and the rows that passed

cowVars == <<inst, mainNs, nsCopy, hasCopy, clonerMtx, pc, ptr, res, txn, snap, cowPre, cowPost>>

\* a namespace with scalar fields and a composite index over two of them
VARIABLES
    books       \* its items_ and the key map of the composite index

\* the storage of a namespace and the EnableStorage call on it
VARIABLES
    store       \* the storage directory and its indexes record, the options of
                \* the call and what the call did

\* a query on the wire: the bytes received, the query read from them and the
\* bytes written from it
VARIABLES
    wire

\* the threads committing transactions through one Namespace
VARIABLES
    cloners

\* an index optimization and the writers arriving while it runs
VARIABLES
    opt

\* one hash index with its IdSet cache and the selects on it
VARIABLES
    hashIndex

\* the ring of the system records of one tag in the storage
VARIABLES
    sysRecords

\* the strings holders of a namespace and the references to them
VARIABLES
    strHolders

\* one Min or Max aggregation over the rows of a select
VARIABLES
    aggregator

\* cancelCommitCnt_ and the writers asking for the write lock
VARIABLES
    commitCnt

\* the tags matcher of the namespace and the serial counter kept in its meta
VARIABLES
    nsTags

auxVars == <<join, books, store, wire, cloners, opt,
            hashIndex, sysRecords, strHolders, aggregator, commitCnt, nsTags>>

vars == <<ns, obs, seen, lastOp, inst, mainNs, nsCopy, hasCopy, clonerMtx, pc, ptr, res, txn,
          snap, cowPre, cowPost, join, books, store, wire, cloners, opt,
          hashIndex, sysRecords, strHolders, aggregator, commitCnt, nsTags>>

\* no query is executed
InitAux ==
    /\ join = <<>>
    /\ books = <<>>
    /\ store = <<>>
    /\ wire = <<>>
    /\ cloners = <<>>
    /\ opt = <<>>
    /\ hashIndex = <<>>
    /\ sysRecords = <<>>
    /\ strHolders = <<>>
    /\ aggregator = <<>>
    /\ commitCnt = <<>>
    /\ nsTags = <<>>

NoOp == [op |-> "none", fromReplication |-> FALSE, originLSN |-> EmptyLSN, err |-> errOK]

Threads == {"committer", "reader", "writer"}

\* what a select reads of a namespace
Data(n) ==
    [items |-> n.items, free |-> n.free, indexes |-> n.indexes,
     idxPk |-> n.idxPk, idxArr |-> n.idxArr, dataHash |-> n.dataHash]

NoTx == [steps |-> <<>>, left |-> <<>>, ctx |-> LocalCtx, c |-> LocalCtx]

\* a namespace opened with its PK index, nobody on it
InitNamespace ==
    /\ inst = <<[impl |-> NamespaceImpl_AddIndex(NewNamespace, <<>>, IndexDef("id", "hash"), LocalCtx).ns,
                 readers |-> {}]>>
    /\ mainNs = 1
    /\ nsCopy = 0
    /\ hasCopy = FALSE
    /\ clonerMtx = "none"
    /\ pc = [t \in Threads |-> "idle"]
    /\ ptr = [t \in Threads |-> 1]
    /\ res = [t \in Threads |-> errOK]
    /\ txn = NoTx
    /\ snap = Data(inst[1].impl)
    /\ cowPre = Data(inst[1].impl)
    /\ cowPost = Data(inst[1].impl)

Init ==
    /\ ns = NewNamespace
    /\ obs = <<>>
    /\ seen = EmptyLSN
    /\ lastOp = NoOp
    /\ InitNamespace
    /\ InitAux

\* a call op under ctx that returns r
Call(op, ctx, r) ==
    /\ lastOp = NoOp
    /\ r.ns.lsnCounter <= MaxLsn
    /\ ns' = r.ns
    /\ obs' = r.obs
    /\ seen' = seen
    /\ lastOp' = [op |-> op, fromReplication |-> ctx.fromReplication,
                  originLSN |-> ctx.originLSN, err |-> r.err]
    /\ UNCHANGED <<cowVars, auxVars>>

Items == {[pk |-> pk, arr |-> arr] : pk \in PKs, arr \in Arrs}

QueryFlags == {<<FALSE, FALSE, FALSE, FALSE>>, <<TRUE, FALSE, FALSE, FALSE>>}

UpdateQueries == {Query(f, a, FALSE, FALSE, FALSE, FALSE) : f \in {AllRows} \cup PKs, a \in Arrs}
                 \cup {Query(AllRows, <<>>, fl[1], fl[2], fl[3], fl[4]) : fl \in QueryFlags}

DeleteQueries == {Query(f, <<>>, FALSE, FALSE, FALSE, FALSE) : f \in {AllRows} \cup PKs}

\* the steps of a transaction: an upsert per PK, a delete, an update query
Steps == {ItemStep(ModeUpsert, pk, IF pk = 1 THEN <<1>> ELSE <<>>) : pk \in PKs}
         \cup {ItemStep(ModeDelete, 1, <<>>),
               QueryStep("QueryUpdate", Query(AllRows, <<>>, FALSE, FALSE, FALSE, FALSE))}

RECURSIVE StepSeqs(_)
StepSeqs(k) ==
    IF k = 0 THEN {<<>>}
    ELSE LET prev == StepSeqs(k - 1)
         IN prev \cup {Append(s, st) : s \in {p \in prev : Len(p) = k - 1}, st \in Steps}

Insert == \E item \in Items, ctx \in ItemCtxs : Call("Insert", ctx, modifyItem(ns, obs, item, ctx, ModeInsert))

Update == \E item \in Items, ctx \in ItemCtxs : Call("Update", ctx, modifyItem(ns, obs, item, ctx, ModeUpdate))

Upsert == \E item \in Items, ctx \in ItemCtxs : Call("Upsert", ctx, modifyItem(ns, obs, item, ctx, ModeUpsert))

Delete == \E item \in {Payload(pk, <<>>) : pk \in PKs}, ctx \in ItemCtxs : Call("Delete", ctx, NamespaceImpl_Delete(ns, obs, item, ctx))

UpdateQuery == \E q \in UpdateQueries, ctx \in Ctxs : Call("UpdateQuery", ctx, NamespaceImpl_UpdateQuery(ns, obs, q, ctx))

DeleteQuery == \E q \in DeleteQueries, ctx \in Ctxs : Call("DeleteQuery", ctx, NamespaceImpl_DeleteQuery(ns, obs, q, ctx))

Truncate == \E ctx \in Ctxs : Call("Truncate", ctx, NamespaceImpl_Truncate(ns, obs, ctx))

PutMeta == \E data \in {"a"}, ctx \in Ctxs : Call("PutMeta", ctx, NamespaceImpl_PutMeta(ns, obs, data, ctx))

SetSchema ==
    \E schema \in {"s"}, ctx \in {LocalCtx} :
        Call("SetSchema", ctx, NamespaceImpl_SetSchema(ns, obs, schema, ctx))

\* the background routine builds the indexes
OptimizeIndexes ==
    Call("optimizeIndexes", LocalCtx, R(NamespaceImpl_optimizeIndexes(ns), obs, errOK, -1))

CacheKeys == {"q"}

\* a select with a cached total
SelectCachedTotal ==
    \E key \in CacheKeys :
        Call("Select", LocalCtx, R(NsSelecter_CachedTotal(ns, key), obs, errOK, -1))

\* a select that joins this namespace as the right one
SelectJoin ==
    \E key \in CacheKeys :
        Call("SelectJoin", LocalCtx, R(JoinedSelector_Process(ns, key), obs, errOK, -1))

AddIndex ==
    \E indexDef \in IndexDefs, ctx \in Ctxs :
        Call("AddIndex", ctx, NamespaceImpl_AddIndex(ns, obs, indexDef, ctx))

UpdateIndex ==
    \E indexDef \in IndexDefs, ctx \in {LocalCtx} :
        Call("UpdateIndex", ctx, NamespaceImpl_UpdateIndex(ns, obs, indexDef, ctx))

DropIndex ==
    \E name \in IndexNames, ctx \in {LocalCtx} :
        Call("DropIndex", ctx, NamespaceImpl_DropIndex(ns, obs, IndexDef(name, "hash"), ctx))

CommitTransaction ==
    \E steps \in StepSeqs(MaxTxSteps), ctx \in Ctxs :
        Call("CommitTransaction", ctx, NamespaceImpl_CommitTransaction(ns, obs, steps, ctx))

SetSlaveMode == Call("setSlaveMode", LocalCtx, R(NamespaceImpl_setSlaveMode(ns), obs, errOK, -1))

SetSlaveReplStatus ==
    /\ ns.replicatorEnabled
    /\ \E status \in ReplStatuses :
          Call("SetSlaveReplStatus", LocalCtx,
               R(NamespaceImpl_SetSlaveReplStatus(ns, status), obs, errOK, -1))

OnConfigUpdated ==
    \E serverId \in ServerIds, role \in ConfigRoles :
        Call("OnConfigUpdated", LocalCtx,
             R(NamespaceImpl_OnConfigUpdated(ns, serverId, role), obs, errOK, -1))

\* the replicator of a slave records the LSNs of the record it has applied
SetReplLSNs ==
    /\ ReplicationRole(ns) = "ReplicationSlave"
    /\ \E server \in ServerIds \ {ns.serverId} :
          Call("SetReplLSNs", LocalCtx,
               R(NamespaceImpl_SetReplLSNs(ns, lsn_t(UpstreamLSN, server), lsn_t(UpstreamLSN, server),
                                           LocalCtx),
                 obs, errOK, -1))

\* UpdatesObservers::Add: a replication observer is attached
Subscribe ==
    /\ ~ns.observers
    /\ Call("Subscribe", LocalCtx, R([ns EXCEPT !.observers = TRUE], obs, errOK, -1))

\* the caller takes the result; the observers keep the last LSN they got
Return ==
    /\ lastOp # NoOp
    /\ lastOp' = NoOp
    /\ seen' = IF obs = <<>> THEN seen ELSE obs[Len(obs)].lsn
    /\ obs' = <<>>
    /\ UNCHANGED ns
    /\ UNCHANGED <<cowVars, auxVars>>

\* every call of the namespace
Next ==
    \/ Insert \/ Update \/ Upsert \/ Delete
    \/ UpdateQuery \/ DeleteQuery \/ Truncate \/ PutMeta
    \/ AddIndex \/ UpdateIndex \/ DropIndex
    \/ CommitTransaction
    \/ SetSlaveMode \/ SetSlaveReplStatus \/ OnConfigUpdated \/ SetReplLSNs
    \/ Subscribe
    \/ SetSchema \/ OptimizeIndexes \/ SelectCachedTotal \/ SelectJoin
    \/ Return

Spec == Init /\ [][Next]_vars

\* the data path: items, queries, index changes and transactions, nobody observing
NextData ==
    \/ Insert \/ Update \/ Upsert \/ Delete
    \/ UpdateQuery \/ DeleteQuery \/ Truncate
    \/ AddIndex \/ UpdateIndex \/ DropIndex
    \/ CommitTransaction
    \/ Return

SpecData == Init /\ [][NextData]_vars

\* the WAL and its observers
NextWal ==
    \/ Subscribe
    \/ Insert \/ Update \/ Upsert \/ Delete
    \/ UpdateQuery \/ DeleteQuery \/ Truncate \/ PutMeta
    \/ AddIndex
    \/ CommitTransaction
    \/ SetSlaveMode
    \/ Return

\* a namespace created under a configuration with any server id
InitServer ==
    /\ \E serverId \in ServerIds : ns = NamespaceImpl_OnConfigUpdated(NewNamespace, serverId, "ReplicationMaster")
    /\ obs = <<>>
    /\ seen = EmptyLSN
    /\ lastOp = NoOp
    /\ InitNamespace
    /\ InitAux

SpecWal == InitServer /\ [][NextWal]_vars

\* the replication roles against every mutating call, nobody observing
\* the index calls on the PK index, local or from replication
ReplAddIndex ==
    \E indexDef \in {IndexDef("id", "hash")}, ctx \in Ctxs :
        Call("AddIndex", ctx, NamespaceImpl_AddIndex(ns, obs, indexDef, ctx))

ReplUpdateIndex ==
    \E indexDef \in {IndexDef("id", "hash")}, ctx \in {LocalCtx} :
        Call("UpdateIndex", ctx, NamespaceImpl_UpdateIndex(ns, obs, indexDef, ctx))

ReplDropIndex ==
    \E indexDef \in {IndexDef("id", "hash")}, ctx \in {LocalCtx} :
        Call("DropIndex", ctx, NamespaceImpl_DropIndex(ns, obs, indexDef, ctx))

NextRepl ==
    \/ Insert \/ Update \/ Upsert \/ Delete
    \/ UpdateQuery \/ DeleteQuery \/ Truncate \/ PutMeta
    \/ ReplAddIndex \/ ReplUpdateIndex \/ ReplDropIndex
    \/ CommitTransaction
    \/ SetSlaveMode \/ SetSlaveReplStatus \/ OnConfigUpdated \/ SetReplLSNs
    \/ Return

SpecRepl == Init /\ [][NextRepl]_vars

\* a namespace with its PK index and the rows 1..k, an observer attached
RECURSIVE FilledRows(_, _)
FilledRows(n, k) ==
    IF k = 0 THEN n
    ELSE modifyItem(FilledRows(n, k - 1), <<>>, Payload(k, <<>>), LocalCtx, ModeUpsert).ns

FilledNamespace(k) ==
    [FilledRows(NamespaceImpl_AddIndex(NewNamespace, <<>>, IndexDef("id", "hash"), LocalCtx).ns, k)
        EXCEPT !.observers = TRUE]

InitFilled ==
    /\ \E k \in 0..MaxRows : ns = FilledNamespace(k)
    /\ obs = <<>>
    /\ seen = EmptyLSN
    /\ lastOp = NoOp
    /\ InitNamespace
    /\ InitAux

\* the WAL records a filled namespace and a query over all its rows take
MaxQueryLsn == 2 * MaxRows + 1

\* a query call under ctx that returns r; the caller keeps its query
QueryCall(op, ctx, q, r) ==
    /\ lastOp = NoOp
    /\ r.ns.lsnCounter <= MaxQueryLsn
    /\ ns' = r.ns
    /\ obs' = r.obs
    /\ seen' = seen
    /\ lastOp' = [op |-> op, fromReplication |-> ctx.fromReplication,
                  originLSN |-> ctx.originLSN, err |-> r.err, q |-> q]
    /\ UNCHANGED <<cowVars, auxVars>>

\* update queries with every combination of expression, JSON assignment,
\* limit and offset, over all rows or one
FlaggedQueries ==
    {Query(f, a, fl[1], fl[2], fl[3], fl[4]) :
        f \in {AllRows, 1}, a \in Arrs, fl \in BOOLEAN \X BOOLEAN \X BOOLEAN \X BOOLEAN}

UpdateFlaggedQuery ==
    \E q \in FlaggedQueries, ctx \in Ctxs :
        QueryCall("UpdateQuery", ctx, q, NamespaceImpl_UpdateQuery(ns, obs, q, ctx))

DeleteOneQuery ==
    \E q \in {Query(1, <<>>, FALSE, FALSE, FALSE, FALSE)}, ctx \in Ctxs :
        QueryCall("DeleteQuery", ctx, q, NamespaceImpl_DeleteQuery(ns, obs, q, ctx))

\* update queries over namespaces of up to MaxRows rows, an observer attached
NextQuery == UpdateFlaggedQuery \/ DeleteOneQuery \/ Return

SpecQuery == InitFilled /\ [][NextQuery]_vars

\* ------------------------------------------------------ the index catalog
\* a sparse index and a composite index over the sub-indexes or JSON paths subs
Sparse(name) == [IndexDef(name, "hash") EXCEPT !.isSparse = TRUE]
Composite(name, subs, isPK) ==
    [IndexDef(name, "composite") EXCEPT !.jsonPaths = subs, !.isPK = isPK]

CatalogDefs ==
    {IndexDef("id", "hash"), IndexDef("arr", "hash"), [IndexDef("arr", "hash") EXCEPT !.isPK = TRUE],
     IndexDef("f1", "hash"), [IndexDef("f1", "hash") EXCEPT !.isPK = TRUE], Sparse("sp1"),
     Composite("comp", <<"id", "f1">>, FALSE), Composite("comp", <<"id", "f1">>, TRUE),
     Composite("comp", <<"f1", "sp1">>, FALSE), Composite("comp", <<"id", "arr">>, FALSE)}

CatalogNames == {d.name : d \in CatalogDefs}

\* an index call that returns r; the caller keeps its definition
IndexCall(op, indexDef, r) ==
    /\ lastOp = NoOp
    /\ r.ns.lsnCounter <= MaxLsn
    /\ ns' = r.ns
    /\ obs' = r.obs
    /\ seen' = seen
    /\ lastOp' = [op |-> op, fromReplication |-> FALSE, originLSN |-> EmptyLSN, err |-> r.err,
                  indexDef |-> indexDef]
    /\ UNCHANGED <<cowVars, auxVars>>

CatalogAddIndex ==
    \E indexDef \in CatalogDefs :
        IndexCall("AddIndex", indexDef, NamespaceImpl_AddIndex(ns, obs, indexDef, LocalCtx))

CatalogUpdateIndex ==
    \E indexDef \in CatalogDefs :
        IndexCall("UpdateIndex", indexDef, NamespaceImpl_UpdateIndex(ns, obs, indexDef, LocalCtx))

CatalogDropIndex ==
    \E name \in CatalogNames :
        IndexCall("DropIndex", IndexDef(name, "hash"),
                  NamespaceImpl_DropIndex(ns, obs, IndexDef(name, "hash"), LocalCtx))

\* the index calls on a namespace without rows
NextCatalog == CatalogAddIndex \/ CatalogUpdateIndex \/ CatalogDropIndex \/ Return

SpecCatalog == Init /\ [][NextCatalog]_vars

\* ------------------------------------------------------- the item calls
\* an item call under ctx that returns r; the caller keeps its item, which
\* carries the id the call set
ItemCall(op, ctx, item, r) ==
    /\ lastOp = NoOp
    /\ r.ns.lsnCounter <= MaxQueryLsn
    /\ ns' = r.ns
    /\ obs' = r.obs
    /\ seen' = seen
    /\ lastOp' = [op |-> op, fromReplication |-> ctx.fromReplication,
                  originLSN |-> ctx.originLSN, err |-> r.err, item |-> item, id |-> r.id]
    /\ UNCHANGED <<cowVars, auxVars>>

ItemInsert ==
    \E item \in Items, ctx \in ItemCtxs :
        ItemCall("Insert", ctx, item, modifyItem(ns, obs, item, ctx, ModeInsert))

ItemUpdate ==
    \E item \in Items, ctx \in ItemCtxs :
        ItemCall("Update", ctx, item, modifyItem(ns, obs, item, ctx, ModeUpdate))

ItemUpsert ==
    \E item \in Items, ctx \in ItemCtxs :
        ItemCall("Upsert", ctx, item, modifyItem(ns, obs, item, ctx, ModeUpsert))

ItemDelete ==
    \E item \in {Payload(pk, <<>>) : pk \in PKs}, ctx \in ItemCtxs :
        ItemCall("Delete", ctx, item, NamespaceImpl_Delete(ns, obs, item, ctx))

\* the item calls on namespaces of up to MaxRows rows, an observer attached
NextItems == ItemInsert \/ ItemUpdate \/ ItemUpsert \/ ItemDelete \/ Return

SpecItems == InitFilled /\ [][NextItems]_vars

\* ------------------------------------------------- the limit of the indexes
\* the name of the k-th field index
FieldName(k) == "f" \o ToString(k)

\* the WAL records of the index calls up to the limit and past it
MaxIndexLsn == maxIndexes + 1

\* the namespace is within three indexes of the limit
NearLimit(n) == Len(n.defs) >= maxIndexes - 3

\* the definitions a call may bring: the next field index; near the limit
\* the next field index or the last one, plain or sparse, and a composite
\* index over f1
LimitDefs(n) ==
    IF ~NearLimit(n) THEN {IndexDef(FieldName(Len(n.defs) + 1), "hash")}
    ELSE {IndexDef(FieldName(k), "hash") : k \in {Len(n.defs), Len(n.defs) + 1}}
         \cup {Sparse(FieldName(k)) : k \in {Len(n.defs), Len(n.defs) + 1}}
         \cup {Composite("comp", <<FieldName(1)>>, FALSE)}

\* an index call that returns r, the WAL within MaxIndexLsn
LimitCall(op, indexDef, r) ==
    /\ lastOp = NoOp
    /\ r.ns.lsnCounter <= MaxIndexLsn
    /\ ns' = r.ns
    /\ obs' = r.obs
    /\ seen' = seen
    /\ lastOp' = [op |-> op, fromReplication |-> FALSE, originLSN |-> EmptyLSN, err |-> r.err,
                  indexDef |-> indexDef]
    /\ UNCHANGED <<cowVars, auxVars>>

LimitAddIndex ==
    \E indexDef \in LimitDefs(ns) :
        LimitCall("AddIndex", indexDef, NamespaceImpl_AddIndex(ns, obs, indexDef, LocalCtx))

LimitUpdateIndex ==
    \E indexDef \in LimitDefs(ns) :
        NearLimit(ns) /\ LimitCall("UpdateIndex", indexDef, NamespaceImpl_UpdateIndex(ns, obs, indexDef, LocalCtx))

LimitDropIndex ==
    \E indexDef \in LimitDefs(ns) :
        NearLimit(ns) /\ LimitCall("DropIndex", indexDef, NamespaceImpl_DropIndex(ns, obs, indexDef, LocalCtx))

\* the index calls that fill a namespace with field indexes up to the limit
NextIndex == LimitAddIndex \/ LimitUpdateIndex \/ LimitDropIndex \/ Return

SpecIndex == Init /\ [][NextIndex]_vars

\* the caches: selects fill them, the optimizer completes, every kind of
\* modification, nobody observing
NextCache ==
    \/ Upsert \/ Delete
    \/ UpdateQuery \/ DeleteQuery \/ Truncate \/ PutMeta \/ SetSchema
    \/ AddIndex \/ UpdateIndex \/ DropIndex
    \/ OptimizeIndexes \/ SelectCachedTotal \/ SelectJoin
    \/ Return

SpecCache == Init /\ [][NextCache]_vars

\* ------------------------------------------- Namespace: copy-on-write commit
\* the copy policy of the namespace configuration; the configuration can be
\* replaced at any moment, so each evaluation reads one of these
CopyConfigs ==
    {[startCopyPolicyTxSize |-> 1, copyPolicyMultiplier |-> 1, txSizeToAlwaysCopy |-> MaxTxSteps],
     [startCopyPolicyTxSize |-> MaxTxSteps + 1, copyPolicyMultiplier |-> 1,
      txSizeToAlwaysCopy |-> MaxTxSteps + 1]}

\* Namespace::needNamespaceCopy
needNamespaceCopy(n, steps, cfg) ==
    \/ (Len(steps) >= cfg.startCopyPolicyTxSize
        /\ n.itemsCapacity <= cfg.copyPolicyMultiplier * Len(steps))
    \/ Len(steps) >= cfg.txSizeToAlwaysCopy

\* NamespaceImpl(const NamespaceImpl &src, storageLock): every member is copied,
\* the lock is new, the items vector is as large as its content
CloneNamespace(n) ==
    markUpdated([n EXCEPT !.readOnly = FALSE, !.itemsCapacity = Len(n.items),
                          !.optimizationState = "NotOptimized"], TRUE)

\* Locker::RLock: an invalidated namespace refuses the lock
rLock(n) == IF n.readOnly THEN errNamespaceInvalidated ELSE errOK

\* the source is left writable
MarkReadOnly_Skip(n) == n

\* ns->markReadOnly()
MarkReadOnly(n) == [n EXCEPT !.readOnly = TRUE]

\* the transaction is applied to the source
CommitTarget_Source(source, copy) == source

\* nsCopy_->CommitTransaction(tx, result, NsContext(ctx).NoLock()): the
\* instance the transaction is applied to
CommitTarget(source, copy) == copy

\* the data a commit of steps leads to: that of the whole transaction, or the
\* unchanged data when a step fails
DataOf(r, n) == IF r.err = errOK THEN Data(r.ns) ELSE Data(n)

DataAfter(n, steps, ctx) ==
    DataOf(NamespaceImpl_CommitTransaction(n, <<>>, steps, [ctx EXCEPT !.noLock = TRUE]), n)

\* Namespace::CommitTransaction: ns = atomicLoadMainNs(); needNamespaceCopy(ns, tx)
BeginCommit ==
    /\ pc.committer = "idle"
    /\ \E steps \in StepSeqs(MaxTxSteps), ctx \in Ctxs, cfg \in CopyConfigs :
        /\ txn' = [steps |-> steps, left |-> steps, ctx |-> ctx, c |-> ctx]
        /\ pc' = [pc EXCEPT !.committer =
                     IF needNamespaceCopy(inst[mainNs].impl, steps, cfg) THEN "cloner" ELSE "inplace"]
    /\ ptr' = [ptr EXCEPT !.committer = mainNs]
    /\ res' = [res EXCEPT !.committer = "pending"]
    /\ UNCHANGED <<auxVars, ns, obs, seen, lastOp, inst, mainNs, nsCopy, hasCopy, clonerMtx, snap, cowPre, cowPost>>

\* lck(clonerMtx_); ns = ns_; needNamespaceCopy(ns, tx); hasCopy_.store(true)
LockCloner ==
    /\ pc.committer = "cloner"
    /\ clonerMtx = "none"
    /\ ptr' = [ptr EXCEPT !.committer = mainNs]
    /\ \E cfg \in CopyConfigs :
        IF needNamespaceCopy(inst[mainNs].impl, txn.steps, cfg)
        THEN /\ clonerMtx' = "committer"
             /\ hasCopy' = TRUE
             /\ cowPre' = Data(inst[mainNs].impl)
             /\ cowPost' = DataAfter(inst[mainNs].impl, txn.steps, txn.ctx)
             /\ pc' = [pc EXCEPT !.committer = "rlock"]
        ELSE /\ pc' = [pc EXCEPT !.committer = "inplace"]
             /\ UNCHANGED <<clonerMtx, hasCopy, cowPre, cowPost>>
    /\ UNCHANGED <<auxVars, ns, obs, seen, lastOp, inst, mainNs, nsCopy, res, txn, snap>>

\* rlck = ns->rLock(ctx); storageLock = ns->storage_.FullLock()
RLockSource ==
    /\ pc.committer = "rlock"
    /\ rLock(inst[ptr.committer].impl) = errOK
    /\ inst' = [inst EXCEPT ![ptr.committer].readers = @ \cup {"committer"}]
    /\ pc' = [pc EXCEPT !.committer = "clone"]
    /\ UNCHANGED <<auxVars, ns, obs, seen, lastOp, mainNs, nsCopy, hasCopy, clonerMtx, ptr, res, txn, snap,
                   cowPre, cowPost>>

\* nsCopy_.reset(new NamespaceImpl(*ns, storageLock))
Clone ==
    /\ pc.committer = "clone"
    /\ inst' = Append(inst, [impl |-> CloneNamespace(inst[ptr.committer].impl), readers |-> {}])
    /\ nsCopy' = Len(inst) + 1
    /\ pc' = [pc EXCEPT !.committer = "txinit"]
    /\ UNCHANGED <<auxVars, ns, obs, seen, lastOp, mainNs, hasCopy, clonerMtx, ptr, res, txn, snap,
                   cowPre, cowPost>>

\* the instance the steps of the commit act on
Target == CommitTarget(ptr.committer, nsCopy)

\* the commit throws err and the copy is kept
CommitFails_KeepCopy(err) ==
    /\ inst' = [inst EXCEPT ![ptr.committer].readers = @ \ {"committer"}]
    /\ UNCHANGED <<nsCopy, hasCopy>>
    /\ clonerMtx' = "none"
    /\ res' = [res EXCEPT !.committer = err]
    /\ pc' = [pc EXCEPT !.committer = "idle"]
    /\ txn' = NoTx

\* the commit throws err: catch (...) { nsCopy_.reset(); hasCopy_.store(false); throw; }
\* and the locks are released on the way out
CommitFails(err) ==
    /\ inst' = [i \in 1..(Len(inst) - 1) |->
                   IF i = ptr.committer THEN [inst[i] EXCEPT !.readers = @ \ {"committer"}]
                   ELSE inst[i]]
    /\ nsCopy' = 0
    /\ hasCopy' = FALSE
    /\ clonerMtx' = "none"
    /\ res' = [res EXCEPT !.committer = err]
    /\ pc' = [pc EXCEPT !.committer = "idle"]
    /\ txn' = NoTx

\* a handler that returned r has acted on the instance the commit works on
Applied(r) ==
    /\ r.ns.lsnCounter <= MaxLsn
    /\ inst' = [inst EXCEPT ![Target].impl = r.ns]
    /\ obs' = r.obs

\* a step that returned r: the loop goes on, or the commit fails with r's error
StepApplied(r) ==
    /\ r.ns.lsnCounter <= MaxLsn
    /\ obs' = r.obs
    /\ IF r.err = errOK
       THEN /\ inst' = [inst EXCEPT ![Target].impl = r.ns]
            /\ txn' = [txn EXCEPT !.left = Tail(@)]
            /\ UNCHANGED <<nsCopy, hasCopy, clonerMtx, res, pc>>
       ELSE CommitFails(r.err)

\* NamespaceImpl::CommitTransaction on the clone: the InitTransaction record
CloneTxInit ==
    /\ pc.committer = "txinit"
    /\ Applied(TxInit(inst[Target].impl, obs, TxCtx(txn.ctx, inst[Target].impl)))
    /\ txn' = [txn EXCEPT !.c = TxCtx(txn.ctx, inst[Target].impl)]
    /\ pc' = [pc EXCEPT !.committer = "txstep"]
    /\ UNCHANGED <<auxVars, ns, seen, lastOp, mainNs, nsCopy, hasCopy, clonerMtx, ptr, res, snap,
                   cowPre, cowPost>>

\* NamespaceImpl::CommitTransaction on the clone: the next step
CloneTxStep ==
    /\ pc.committer = "txstep"
    /\ txn.left # <<>>
    /\ StepApplied(TxStep(inst[Target].impl, obs, Head(txn.left), txn.c))
    /\ UNCHANGED <<auxVars, ns, seen, lastOp, mainNs, ptr, snap, cowPre, cowPost>>

\* NamespaceImpl::CommitTransaction on the clone: the CommitTransaction record
CloneTxCommit ==
    /\ pc.committer = "txstep"
    /\ txn.left = <<>>
    /\ Applied(TxCommit(inst[Target].impl, obs, txn.c))
    /\ pc' = [pc EXCEPT !.committer = "mark"]
    /\ UNCHANGED <<auxVars, ns, seen, lastOp, mainNs, nsCopy, hasCopy, clonerMtx, ptr, res, txn, snap,
                   cowPre, cowPost>>

\* ns->markReadOnly()
MarkSourceReadOnly ==
    /\ pc.committer = "mark"
    /\ inst' = [inst EXCEPT ![ptr.committer].impl = MarkReadOnly(@)]
    /\ pc' = [pc EXCEPT !.committer = "store"]
    /\ UNCHANGED <<auxVars, ns, obs, seen, lastOp, mainNs, nsCopy, hasCopy, clonerMtx, ptr, res, txn, snap,
                   cowPre, cowPost>>

\* atomicStoreMainNs(nsCopy_.release())
StoreMainNs ==
    /\ pc.committer = "store"
    /\ mainNs' = nsCopy
    /\ nsCopy' = 0
    /\ pc' = [pc EXCEPT !.committer = "finish"]
    /\ UNCHANGED <<auxVars, ns, obs, seen, lastOp, inst, hasCopy, clonerMtx, ptr, res, txn, snap,
                   cowPre, cowPost>>

\* hasCopy_.store(false); the end of the try block releases rlck
FinishCopy ==
    /\ pc.committer = "finish"
    /\ hasCopy' = FALSE
    /\ inst' = [inst EXCEPT ![ptr.committer].readers = @ \ {"committer"}]
    /\ pc' = [pc EXCEPT !.committer = "unlock"]
    /\ UNCHANGED <<auxVars, ns, obs, seen, lastOp, mainNs, nsCopy, clonerMtx, ptr, res, txn, snap,
                   cowPre, cowPost>>

\* ns = ns_; lck.unlock(); return
UnlockCloner ==
    /\ pc.committer = "unlock"
    /\ clonerMtx' = "none"
    /\ ptr' = [ptr EXCEPT !.committer = mainNs]
    /\ res' = [res EXCEPT !.committer = errOK]
    /\ pc' = [pc EXCEPT !.committer = "idle"]
    /\ txn' = NoTx
    /\ UNCHANGED <<auxVars, ns, obs, seen, lastOp, inst, mainNs, nsCopy, hasCopy, snap, cowPre, cowPost>>

\* thread t's call on instance i has returned r
Returned(t, i, r) ==
    /\ r.ns.lsnCounter <= MaxLsn
    /\ inst' = [inst EXCEPT ![i].impl = r.ns]
    /\ obs' = r.obs
    /\ res' = [res EXCEPT ![t] = r.err]

\* handleInvalidation(NamespaceImpl::CommitTransaction): the commit in place,
\* under the write lock of the main namespace
CommitInPlace ==
    /\ pc.committer = "inplace"
    /\ inst[mainNs].readers = {}
    /\ Returned("committer", mainNs,
                NamespaceImpl_CommitTransaction(inst[mainNs].impl, obs, txn.steps, txn.ctx))
    /\ ptr' = [ptr EXCEPT !.committer = mainNs]
    /\ pc' = [pc EXCEPT !.committer = "idle"]
    /\ txn' = NoTx
    /\ UNCHANGED <<auxVars, ns, seen, lastOp, mainNs, nsCopy, hasCopy, clonerMtx, snap, cowPre, cowPost>>

\* a select through the namespace: ns = atomicLoadMainNs()
ReaderLoad ==
    /\ pc.reader = "idle"
    /\ ptr' = [ptr EXCEPT !.reader = mainNs]
    /\ res' = [res EXCEPT !.reader = "pending"]
    /\ pc' = [pc EXCEPT !.reader = "lock"]
    /\ UNCHANGED <<auxVars, ns, obs, seen, lastOp, inst, mainNs, nsCopy, hasCopy, clonerMtx, txn, snap,
                   cowPre, cowPost>>

\* the select takes the read lock of the namespace it loaded
ReaderLock ==
    /\ pc.reader = "lock"
    /\ IF rLock(inst[ptr.reader].impl) # errOK
       THEN /\ res' = [res EXCEPT !.reader = rLock(inst[ptr.reader].impl)]
            /\ pc' = [pc EXCEPT !.reader = "idle"]
            /\ UNCHANGED inst
       ELSE /\ inst' = [inst EXCEPT ![ptr.reader].readers = @ \cup {"reader"}]
            /\ pc' = [pc EXCEPT !.reader = "read"]
            /\ UNCHANGED res
    /\ UNCHANGED <<auxVars, ns, obs, seen, lastOp, mainNs, nsCopy, hasCopy, clonerMtx, ptr, txn, snap,
                   cowPre, cowPost>>

\* the select reads the namespace under its read lock
ReaderRead ==
    /\ pc.reader = "read"
    /\ snap' = Data(inst[ptr.reader].impl)
    /\ res' = [res EXCEPT !.reader = errOK]
    /\ pc' = [pc EXCEPT !.reader = "unlock"]
    /\ UNCHANGED <<auxVars, ns, obs, seen, lastOp, inst, mainNs, nsCopy, hasCopy, clonerMtx, ptr, txn,
                   cowPre, cowPost>>

\* the select returns and releases the read lock
ReaderUnlock ==
    /\ pc.reader = "unlock"
    /\ inst' = [inst EXCEPT ![ptr.reader].readers = @ \ {"reader"}]
    /\ pc' = [pc EXCEPT !.reader = "idle"]
    /\ UNCHANGED <<auxVars, ns, obs, seen, lastOp, mainNs, nsCopy, hasCopy, clonerMtx, ptr, res, txn, snap,
                   cowPre, cowPost>>

\* a meta write through the namespace: ns = atomicLoadMainNs()
WriterLoad ==
    /\ pc.writer = "idle"
    /\ ptr' = [ptr EXCEPT !.writer = mainNs]
    /\ res' = [res EXCEPT !.writer = "pending"]
    /\ pc' = [pc EXCEPT !.writer = "lock"]
    /\ UNCHANGED <<auxVars, ns, obs, seen, lastOp, inst, mainNs, nsCopy, hasCopy, clonerMtx, txn, snap,
                   cowPre, cowPost>>

\* NamespaceImpl::PutMeta on the namespace the writer loaded, once nobody
\* holds its lock
WriterPutMeta ==
    /\ pc.writer = "lock"
    /\ inst[ptr.writer].readers = {}
    /\ \E data \in {"a", "b"} :
        Returned("writer", ptr.writer,
                 NamespaceImpl_PutMeta(inst[ptr.writer].impl, obs, data, LocalCtx))
    /\ pc' = [pc EXCEPT !.writer = "idle"]
    /\ UNCHANGED <<auxVars, ns, seen, lastOp, mainNs, nsCopy, hasCopy, clonerMtx, ptr, txn, snap,
                   cowPre, cowPost>>

NextCow ==
    \/ BeginCommit \/ LockCloner \/ RLockSource \/ Clone
    \/ CloneTxInit \/ CloneTxStep \/ CloneTxCommit
    \/ MarkSourceReadOnly \/ StoreMainNs \/ FinishCopy \/ UnlockCloner
    \/ CommitInPlace
    \/ ReaderLoad \/ ReaderLock \/ ReaderRead \/ ReaderUnlock
    \/ WriterLoad \/ WriterPutMeta

SpecCow == Init /\ [][NextCow]_vars

\* ------------------------------------------- transactions, step by step
\* the steps of the transactions: those of Steps and an update query with an
\* expression, which a namespace refuses when it comes from replication
TxStepChoices ==
    Steps \cup {QueryStep("QueryUpdate", Query(AllRows, <<>>, TRUE, FALSE, FALSE, FALSE))}

TxStepSeqs ==
    {<<a>> : a \in TxStepChoices} \cup {<<a, b>> : a \in Steps, b \in TxStepChoices}

\* a call under ctx that returns r; the caller keeps the steps it passed and
\* the namespace as it was before the call
TxCall(op, ctx, steps, r) ==
    /\ lastOp = NoOp
    /\ r.ns.lsnCounter <= MaxQueryLsn
    /\ ns' = r.ns
    /\ obs' = r.obs
    /\ seen' = seen
    /\ lastOp' = [op |-> op, fromReplication |-> ctx.fromReplication,
                  originLSN |-> ctx.originLSN, err |-> r.err, steps |-> steps, pre |-> ns]
    /\ UNCHANGED <<cowVars, auxVars>>

TxBecomeSlave ==
    /\ ~ns.slaveMode
    /\ TxCall("setSlaveMode", LocalCtx, <<>>, R(NamespaceImpl_setSlaveMode(ns), obs, errOK, -1))

TxCommitInPlace ==
    \E steps \in TxStepSeqs, ctx \in Ctxs :
        TxCall("CommitTransaction", ctx, steps, NamespaceImpl_CommitTransaction(ns, obs, steps, ctx))

NextTx == TxBecomeSlave \/ TxCommitInPlace \/ Return

SpecTx == InitFilled /\ [][NextTx]_vars

\* --------------------------------- optimizeIndexes and the waiting writers
\* the writes each writer makes
MaxWrites == 1

Writers == {"w1", "w2"}

\* the kinds of the indexes of the namespace (no composite index), in order
OptIndexes == <<"tree", "hash">>

\* config_.optimizationSortWorkers, capped by the hardware concurrency
SortWorkers == {0, 1}

IsOrdered(kind) == kind = "tree"

\* the counter as a poll reads it when the writers do not raise it
Cancelled_Never(o) == FALSE

\* cancelCommitCnt_.load(): a writer is waiting for the write lock
Cancelled(o) == o.cancelCommitCnt # 0

\* a namespace touched since its last optimization, nobody on it
InitOpt ==
    /\ ns = NewNamespace
    /\ obs = <<>>
    /\ seen = EmptyLSN
    /\ lastOp = NoOp
    /\ InitNamespace
    /\ join = <<>>
    /\ books = <<>>
    /\ store = <<>>
    /\ wire = <<>>
    /\ cloners = <<>>
    /\ hashIndex = <<>>
    /\ sysRecords = <<>>
    /\ strHolders = <<>>
    /\ aggregator = <<>>
    /\ commitCnt = <<>>
    /\ nsTags = <<>>
    /\ \E workers \in SortWorkers, state \in {"NotOptimized", "OptimizedPartially"} :
          opt = [optimizationState |-> state, cancelCommitCnt |-> 0, lastUpdateTime |-> TRUE,
                 maxIndexWorkers |-> workers, rlock |-> FALSE, wlock |-> "none",
                 pc |-> "idle", field |-> 0, idx |-> 0, j |-> 0, forceBuildAll |-> FALSE,
                 committed |-> {}, sorted |-> {},
                 waited |-> FALSE, waitedBeforeStore |-> FALSE, early |-> FALSE, stored |-> FALSE,
                 wpc |-> [w \in Writers |-> "idle"], writes |-> [w \in Writers |-> 0]]

OptStep(o) ==
    /\ opt' = o
    /\ UNCHANGED <<ns, obs, seen, lastOp, cowVars, join, books, store, wire, cloners,
                 hashIndex, sysRecords, strHolders, aggregator, commitCnt, nsTags>>

\* the run is at work, ahead of its last test of the counter before the store
Optimizing == {"commit", "sort", "worker", "sortcheck", "finish"}

\* the run is over: the read lock is released; early: a test of
\* cancelCommitCnt_ found it raised
OptReturn(o, early) ==
    [o EXCEPT !.pc = "done", !.rlock = FALSE, !.early = early]

\* optimizeIndexes: the first test of optimizationState_, a new run begins
OptEnter ==
    /\ opt # <<>> /\ opt.pc \in {"idle", "done"}
    /\ OptStep([opt EXCEPT !.pc = IF opt.optimizationState = "OptimizationCompleted"
                                  THEN "idle" ELSE "rlock",
                           !.committed = {}, !.sorted = {}, !.waited = FALSE,
                           !.waitedBeforeStore = FALSE, !.early = FALSE, !.stored = FALSE])

\* rlck = rLock(ctx.rdxContext)
OptRLock ==
    /\ opt # <<>> /\ opt.pc = "rlock"
    /\ opt.wlock = "none"
    /\ OptStep([opt EXCEPT !.pc = "check", !.rlock = TRUE])

\* the tests under the read lock: the time of the last update and the
\* optimization timeout, optimizationState_, cancelCommitCnt_
OptCheck ==
    /\ opt # <<>> /\ opt.pc = "check"
    /\ \E elapsed \in BOOLEAN :
          IF ~opt.lastUpdateTime \/ ~elapsed THEN OptStep(OptReturn(opt, FALSE))
          ELSE IF opt.optimizationState = "OptimizationCompleted" THEN OptStep(OptReturn(opt, FALSE))
          ELSE IF Cancelled(opt) THEN OptStep(OptReturn(opt, TRUE))
          ELSE OptStep([opt EXCEPT !.pc = "commit", !.field = 1,
                                   !.forceBuildAll = (opt.optimizationState = "NotOptimized")])

\* one turn of the do-while loop: indexes_[field]->Commit(), then the tests
\* of the field and of cancelCommitCnt_
OptCommitIndex ==
    /\ opt # <<>> /\ opt.pc = "commit"
    /\ LET o == [opt EXCEPT !.committed = @ \cup {opt.field}]
       IN IF opt.field = Len(OptIndexes) THEN OptStep([o EXCEPT !.pc = "sort", !.idx = 1])
          ELSE IF Cancelled(opt) THEN OptStep([o EXCEPT !.pc = "sort", !.idx = 1, !.early = TRUE])
          ELSE OptStep([o EXCEPT !.field = @ + 1])

\* the head of the loop over the indexes: an ordered index gets its sort
\* orders built by the worker thread
OptSortIndex ==
    /\ opt # <<>> /\ opt.pc = "sort"
    /\ IF opt.idx > Len(OptIndexes) THEN OptStep([opt EXCEPT !.pc = "finish"])
       ELSE IF IsOrdered(OptIndexes[opt.idx]) /\ opt.maxIndexWorkers # 0
            THEN OptStep([opt EXCEPT !.pc = "worker", !.j = 1])
       ELSE OptStep([opt EXCEPT !.pc = "sortcheck"])

\* one turn of the worker thread's loop: the test of j and of
\* cancelCommitCnt_, then UpdateSortedIds on indexes_[j]
OptWorker ==
    /\ opt # <<>> /\ opt.pc = "worker"
    /\ IF opt.j > Len(OptIndexes) THEN OptStep([opt EXCEPT !.pc = "sortcheck"])
       ELSE IF Cancelled(opt) THEN OptStep([opt EXCEPT !.pc = "sortcheck", !.early = TRUE])
       ELSE OptStep([opt EXCEPT !.sorted = @ \cup {<<opt.idx, opt.j>>}, !.j = @ + 1])

\* if (cancelCommitCnt_.load()) break
OptSortCheck ==
    /\ opt # <<>> /\ opt.pc = "sortcheck"
    /\ IF Cancelled(opt) THEN OptStep([opt EXCEPT !.pc = "finish", !.early = TRUE])
       ELSE OptStep([opt EXCEPT !.pc = "sort", !.idx = @ + 1])

\* the end of the run without the store of the state
OptFinish_NeverStores ==
    /\ opt # <<>> /\ opt.pc = "finish"
    /\ OptStep([opt EXCEPT !.pc = "trace"])

\* if (maxIndexWorkers && !cancelCommitCnt_.load())
OptFinish ==
    /\ opt # <<>> /\ opt.pc = "finish"
    /\ IF opt.maxIndexWorkers = 0 THEN OptStep([opt EXCEPT !.pc = "trace"])
       ELSE IF Cancelled(opt) THEN OptStep([opt EXCEPT !.pc = "trace", !.early = TRUE])
       ELSE OptStep([opt EXCEPT !.pc = "store"])

\* optimizationState_.store(OptimizationCompleted), MarkBuilt
OptStore ==
    /\ opt # <<>> /\ opt.pc = "store"
    /\ OptStep([opt EXCEPT !.pc = "trace", !.optimizationState = "OptimizationCompleted",
                           !.stored = TRUE])

\* the last test of cancelCommitCnt_: the trace, or lastUpdateTime_.store(0);
\* the function returns
OptTrace ==
    /\ opt # <<>> /\ opt.pc = "trace"
    /\ IF Cancelled(opt) THEN OptStep(OptReturn(opt, TRUE))
       ELSE OptStep(OptReturn([opt EXCEPT !.lastUpdateTime = FALSE], opt.early))

\* modifyItem: CounterGuardAIR32 cg(cancelCommitCnt_), the writer starts
\* waiting for the write lock
WriterWait ==
    /\ opt # <<>>
    /\ \E w \in Writers :
          /\ opt.wpc[w] = "idle" /\ opt.writes[w] < MaxWrites
          /\ OptStep([opt EXCEPT !.wpc[w] = "wait", !.cancelCommitCnt = @ + 1,
                                 !.writes[w] = @ + 1,
                                 !.waited = @ \/ opt.pc \in Optimizing \cup {"store", "trace"},
                                 !.waitedBeforeStore = @ \/ opt.pc \in Optimizing])

\* wlck = wLock(ctx.rdxContext); cg.Reset()
WriterLock ==
    /\ opt # <<>>
    /\ \E w \in Writers :
          /\ opt.wpc[w] = "wait"
          /\ ~opt.rlock /\ opt.wlock = "none"
          /\ OptStep([opt EXCEPT !.wpc[w] = "hold", !.wlock = w, !.cancelCommitCnt = @ - 1])

\* the item is written, markUpdated, the write lock is released
WriterModify ==
    /\ opt # <<>>
    /\ \E w \in Writers, forceOptimizeAllIndexes \in BOOLEAN :
          /\ opt.wpc[w] = "hold"
          /\ OptStep([opt EXCEPT !.wpc[w] = "idle", !.wlock = "none",
                                 !.optimizationState =
                                     IF forceOptimizeAllIndexes THEN "NotOptimized"
                                     ELSE IF @ = "OptimizationCompleted" THEN "OptimizedPartially"
                                     ELSE @,
                                 !.lastUpdateTime = TRUE])

NextOpt ==
    \/ OptEnter \/ OptRLock \/ OptCheck \/ OptCommitIndex
    \/ OptSortIndex \/ OptWorker \/ OptSortCheck
    \/ OptFinish \/ OptStore \/ OptTrace
    \/ WriterWait \/ WriterLock \/ WriterModify

SpecOpt == InitOpt /\ [][NextOpt]_vars

\* the tests under the read lock pass: the optimization timeout has elapsed
\* since the last update
OptCheckPasses == OptCheck /\ opt'.pc = "commit"

\* the background routine runs again and again and each run goes on to its
\* end; once the writes have stopped the optimization timeout elapses
SpecOptLive ==
    /\ InitOpt /\ [][NextOpt]_vars
    /\ WF_vars(OptEnter) /\ WF_vars(OptRLock) /\ WF_vars(OptCheck)
    /\ SF_vars(OptCheckPasses)
    /\ WF_vars(OptCommitIndex) /\ WF_vars(OptSortIndex) /\ WF_vars(OptWorker)
    /\ WF_vars(OptSortCheck) /\ WF_vars(OptFinish) /\ WF_vars(OptStore) /\ WF_vars(OptTrace)

\* ------------------------------------------ IndexUnordered and its cache
\* the keys and the ids of the hash index
MaxKey == 2
MaxId == 2

HashKeys == 1..MaxKey
HashIds == 1..MaxId

\* the key arrays of the selects
SelectKeys == {<<1>>, <<1, 2>>, <<2, 1>>}

\* SelectOpts::maxIterations and SelectOpts::itemsCountInNamespace of the selects
MaxIterationsOpts == {1, 3, 8}
ItemsCountOpts == {0, 4, 30}

\* maxSelectivityPercentForIdset()
maxSelectivityPercentForIdset == 20

\* cache_: whether the IdSetCache exists, and its entries
NoCache == [exists |-> FALSE, entries |-> {}]

NoHashOp == [op |-> "none"]

\* IdSet::Add returns whether the id was added
IdSet_Added(ids, id) == id \notin ids

\* if (cache_) cache_.reset() left out
CacheReset_Keep(h) == h.cache

\* if (cache_) cache_.reset()
CacheReset(h) == NoCache

\* IndexUnordered<T>::Upsert: the index after the call
HashIndex_Upsert(h, key, id) ==
    IF key = Null
    THEN IF IdSet_Added(h.empty_ids, id)
         THEN [h EXCEPT !.empty_ids = IdSet_Add(@, id), !.cache = CacheReset(h), !.isBuilt = FALSE]
         ELSE h
    ELSE IF IdSet_Added(h.idx_map[key], id)
         THEN [h EXCEPT !.idx_map[key] = IdSet_Add(@, id), !.cache = CacheReset(h), !.isBuilt = FALSE]
         ELSE h

\* IndexUnordered<T>::Delete: the index after the call
HashIndex_Delete(h, key, id) ==
    IF key = Null
    THEN [h EXCEPT !.empty_ids = IdSet_Erase(@, id), !.cache = CacheReset(h), !.isBuilt = FALSE]
    ELSE IF h.idx_map[key] = {} THEN h
    ELSE [h EXCEPT !.idx_map[key] = IdSet_Erase(@, id), !.cache = CacheReset(h), !.isBuilt = FALSE]

\* the assertions of Delete: the id is in the empty ids; the id is under the
\* key unless the index is an array index or a sparse one
DeleteAsserts(h, key, id) ==
    IF key = Null THEN id \in h.empty_ids
    ELSE h.idx_map[key] = {} \/ h.isArray \/ id \in h.idx_map[key]

\* the selector of SelectKey: the id sets of the keys found, their ids
\* counted, and whether to fall back to the comparator
RECURSIVE SelectorFound(_, _)
SelectorFound(h, keys) ==
    IF keys = <<>> THEN <<>>
    ELSE (IF h.idx_map[Head(keys)] # {} THEN <<h.idx_map[Head(keys)]>> ELSE <<>>)
         \o SelectorFound(h, Tail(keys))

RECURSIVE IdsCount(_)
IdsCount(found) == IF found = <<>> THEN 0 ELSE Cardinality(Head(found)) + IdsCount(Tail(found))

MergeIdsets(found) == UNION {found[i] : i \in 1..Len(found)}

\* the selector that falls back only when both thresholds are passed
Selector_Both(h, keys, opts) ==
    LET found == SelectorFound(h, keys)
        idsCount == IdsCount(found)
    IN [ids |-> MergeIdsets(found),
        scanWin |->
            IF opts.itemsCountInNamespace = 0 THEN FALSE
            ELSE Len(found) > 1
                 /\ idsCount * 2 > opts.maxIterations
                 /\ (100 * idsCount) \div opts.itemsCountInNamespace
                        > maxSelectivityPercentForIdset]

Selector(h, keys, opts) ==
    LET found == SelectorFound(h, keys)
        idsCount == IdsCount(found)
    IN [ids |-> MergeIdsets(found),
        scanWin |->
            IF opts.itemsCountInNamespace = 0 THEN FALSE
            ELSE Len(found) > 1
                 /\ (\/ idsCount * 2 > opts.maxIterations
                     \/ (100 * idsCount) \div opts.itemsCountInNamespace
                            > maxSelectivityPercentForIdset)]

\* cache_->Get(ckey): the entry of the key; a miss leaves an entry without ids
CacheEntry(h, keys) == {e \in h.cache.entries : e.keys = keys}

CachePut(cache, keys, hasIds, ids) ==
    [cache EXCEPT !.entries = {e \in @ : e.keys # keys}
                               \cup {[keys |-> keys, hasIds |-> hasIds, ids |-> ids]}]

\* IndexUnordered<T>::tryIdsetCache
tryIdsetCache(h, keys, opts) ==
    LET sel == Selector(h, keys, opts)
        hit == CacheEntry(h, keys)
    IN IF ~h.cache.exists THEN [cache |-> h.cache, ids |-> sel.ids, scanWin |-> sel.scanWin]
       ELSE IF hit = {}
            THEN [cache |-> CachePut(h.cache, keys, FALSE, {}), ids |-> sel.ids,
                  scanWin |-> sel.scanWin]
       ELSE IF \E e \in hit : e.hasIds
            THEN [cache |-> h.cache, ids |-> UNION {e.ids : e \in hit}, scanWin |-> FALSE]
       ELSE [cache |-> IF sel.scanWin THEN h.cache ELSE CachePut(h.cache, keys, TRUE, sel.ids),
             ids |-> sel.ids, scanWin |-> sel.scanWin]

\* IndexUnordered<T>::SelectKey for CondEq / CondSet: the cache after the
\* call and what is returned, the comparator or the id set
HashIndex_SelectKey(h, keys, opts) ==
    IF opts.forceComparator THEN [cache |-> h.cache, kind |-> "comparator", ids |-> {}]
    ELSE LET r == IF ~opts.distinct /\ ~opts.disableIdSetCache /\ Len(keys) > 1
                  THEN tryIdsetCache(h, keys, opts)
                  ELSE [cache |-> h.cache, ids |-> Selector(h, keys, opts).ids,
                        scanWin |-> Selector(h, keys, opts).scanWin]
         IN IF r.scanWin /\ ~opts.distinct
            THEN [cache |-> r.cache, kind |-> "comparator", ids |-> {}]
            ELSE [cache |-> r.cache, kind |-> "idset", ids |-> r.ids]

SelectOptsSet ==
    [distinct : BOOLEAN, disableIdSetCache : BOOLEAN, forceComparator : BOOLEAN,
     maxIterations : MaxIterationsOpts, itemsCountInNamespace : ItemsCountOpts]

\* an empty index of either kind, not committed yet
InitHash ==
    /\ ns = NewNamespace
    /\ obs = <<>>
    /\ seen = EmptyLSN
    /\ lastOp = NoOp
    /\ InitNamespace
    /\ join = <<>>
    /\ books = <<>>
    /\ store = <<>>
    /\ wire = <<>>
    /\ cloners = <<>>
    /\ opt = <<>>
    /\ sysRecords = <<>>
    /\ strHolders = <<>>
    /\ aggregator = <<>>
    /\ commitCnt = <<>>
    /\ nsTags = <<>>
    /\ \E isArray \in BOOLEAN :
          hashIndex = [idx_map |-> [k \in HashKeys |-> {}], empty_ids |-> {}, cache |-> NoCache,
                       isBuilt |-> FALSE, isArray |-> isArray, last |-> NoHashOp]

HashStep(h) ==
    /\ hashIndex' = h
    /\ UNCHANGED <<ns, obs, seen, lastOp, cowVars, join, books, store, wire, cloners, opt,
                 sysRecords, strHolders, aggregator, commitCnt, nsTags>>

HashUpsert ==
    /\ hashIndex # <<>> /\ hashIndex.last = NoHashOp
    /\ \E key \in HashKeys \cup {Null}, id \in HashIds :
          HashStep([HashIndex_Upsert(hashIndex, key, id) EXCEPT
                      !.last = [op |-> "Upsert", key |-> key, id |-> id, pre |-> hashIndex]])

HashDelete ==
    /\ hashIndex # <<>> /\ hashIndex.last = NoHashOp
    /\ \E key \in HashKeys \cup {Null}, id \in HashIds :
          /\ DeleteAsserts(hashIndex, key, id)
          /\ HashStep([HashIndex_Delete(hashIndex, key, id) EXCEPT
                         !.last = [op |-> "Delete", key |-> key, id |-> id, pre |-> hashIndex]])

\* IndexUnordered<T>::Commit: the cache is created when there is none
HashCommit ==
    /\ hashIndex # <<>> /\ hashIndex.last = NoHashOp
    /\ ~hashIndex.cache.exists \/ ~hashIndex.isBuilt
    /\ HashStep([hashIndex EXCEPT !.cache.exists = TRUE, !.isBuilt = TRUE])

HashSelect ==
    /\ hashIndex # <<>> /\ hashIndex.last = NoHashOp
    /\ \E keys \in SelectKeys, opts \in SelectOptsSet :
          LET r == HashIndex_SelectKey(hashIndex, keys, opts)
          IN HashStep([hashIndex EXCEPT
                         !.cache = r.cache,
                         !.last = [op |-> "Select", keys |-> keys, opts |-> opts,
                                   kind |-> r.kind, ids |-> r.ids, pre |-> hashIndex]])

\* the caller takes the result
HashReturn ==
    /\ hashIndex # <<>> /\ hashIndex.last # NoHashOp
    /\ HashStep([hashIndex EXCEPT !.last = NoHashOp])

NextHash == HashUpsert \/ HashDelete \/ HashCommit \/ HashSelect \/ HashReturn

SpecHash == InitHash /\ [][NextHash]_vars

\* ------------------------------------ modifyItem, the tags and the precepts
\* the tag names an item may bring and the precepts it may carry
TagNames == {"t1", "t2"}
Precepts == {"none", "serial"}

\* the serial numbers handed out
MaxSerial == 2

\* the item's tags are dropped
updateTagsMatcherFromItem_NoMerge(tm, itemTags) == tm

\* NamespaceImpl::updateTagsMatcherFromItem: tagsMatcher_.try_merge takes the
\* tags of an updated item's matcher into the namespace's
updateTagsMatcherFromItem(tm, itemTags) ==
    [tm EXCEPT !.tags = @ \cup itemTags, !.updated = @ \/ ~(itemTags \subseteq tm.tags)]

\* NamespaceImpl::GetSerial: the counter of the meta key is read, advanced
\* and put back
GetSerial(tm) == [tm EXCEPT !.serial = @ + 1]

\* NamespaceImpl::setFieldsBasedOnPrecepts
setFieldsBasedOnPrecepts(tm, precept) == IF precept = "serial" THEN GetSerial(tm) ELSE tm

\* NamespaceImpl::modifyItem, its effect on the tags matcher and on the meta:
\* the precepts and the tags come after the lock and the role check and
\* before the lookup of the PK
modifyItem_Tags(n, tm, itemTags, precept, ctx) ==
    IF wLock(n, ctx) # errOK THEN tm
    ELSE IF checkApplySlaveUpdate(n, ctx.fromReplication) # errOK THEN tm
    ELSE updateTagsMatcherFromItem(setFieldsBasedOnPrecepts(tm, precept), itemTags)

InitModify ==
    /\ \E k \in 0..MaxRows : ns = FilledNamespace(k)
    /\ obs = <<>>
    /\ seen = EmptyLSN
    /\ lastOp = NoOp
    /\ InitNamespace
    /\ join = <<>>
    /\ books = <<>>
    /\ store = <<>>
    /\ wire = <<>>
    /\ cloners = <<>>
    /\ opt = <<>>
    /\ hashIndex = <<>>
    /\ sysRecords = <<>>
    /\ strHolders = <<>>
    /\ aggregator = <<>>
    /\ commitCnt = <<>>
    /\ nsTags = [tags |-> {}, updated |-> FALSE, serial |-> 0]

\* a call of modifyItem under ctx; the caller keeps the item it passed and
\* the namespace and its tags as they were before the call
ModifyCall(op, mode) ==
    /\ lastOp = NoOp
    /\ \E item \in Items, itemTags \in SUBSET TagNames, precept \in Precepts, ctx \in Ctxs :
          LET r == modifyItem(ns, obs, item, ctx, mode)
          IN /\ r.ns.lsnCounter <= MaxQueryLsn
             /\ precept = "serial" => nsTags.serial < MaxSerial
             /\ ns' = r.ns
             /\ obs' = r.obs
             /\ seen' = seen
             /\ nsTags' = modifyItem_Tags(ns, nsTags, itemTags, precept, ctx)
             /\ lastOp' = [op |-> op, fromReplication |-> ctx.fromReplication,
                           originLSN |-> ctx.originLSN, err |-> r.err, item |-> item,
                           id |-> r.id, itemTags |-> itemTags, precept |-> precept,
                           pre |-> ns, preTags |-> nsTags]
    /\ UNCHANGED <<cowVars, join, books, store, wire, cloners, opt,
                   hashIndex, sysRecords, strHolders, aggregator, commitCnt>>

ModifyInsert == ModifyCall("Insert", ModeInsert)

ModifyUpdate == ModifyCall("Update", ModeUpdate)

ModifyUpsert == ModifyCall("Upsert", ModeUpsert)

\* the caller takes the result
ModifyReturn ==
    /\ lastOp # NoOp
    /\ lastOp' = NoOp
    /\ seen' = IF obs = <<>> THEN seen ELSE obs[Len(obs)].lsn
    /\ obs' = <<>>
    /\ UNCHANGED <<ns, nsTags, cowVars, join, books, store, wire, cloners, opt,
                   hashIndex, sysRecords, strHolders, aggregator, commitCnt>>

NextModify == ModifyInsert \/ ModifyUpdate \/ ModifyUpsert \/ ModifyReturn

SpecModify == InitModify /\ [][NextModify]_vars

\* ================================================================ system records
\* The system records of one tag (indexes, tags, schema, replication state)
\* in the storage: a ring of kSysRecordsBackupCount slots, each record
\* prefixed by its version, and the record of the old format under the bare
\* tag. sysRecords holds the slots, the old record, the version counter of
\* the open namespace (sysRecordsVersions_), what the last load returned and
\* the content of the most recent write.
kSysRecordsBackupCount == 8

kSysRecordsFirstWriteCopies == 3

MaxSysVersion == 12

SysContents == {1, 2}

NoContent == 0

NoSysRecord == [has |-> FALSE, version |-> 0, content |-> NoContent]

SysSlots == 0..(kSysRecordsBackupCount - 1)

\* NamespaceImpl::sysRecordName: the slot of a version
sysRecordName(version) == version % kSysRecordsBackupCount

\* the loop of NamespaceImpl::writeSysRecToStorage: one record per
\* iteration, the version written over the prefix and then incremented
RECURSIVE writeSysRecCopies(_, _, _, _)
writeSysRecCopies(slots, data, version, iterCount) ==
    IF iterCount = 0 THEN [slots |-> slots, version |-> version]
    ELSE writeSysRecCopies(
             [slots EXCEPT ![sysRecordName(version)] =
                 [has |-> TRUE, version |-> version, content |-> data]],
             data, version + 1, iterCount - 1)

\* NamespaceImpl::writeSysRecToStorage (Write and WriteSync both put the
\* record under its name)
writeSysRecToStorage(slots, data, version) ==
    writeSysRecCopies(slots, data, version,
                      IF version > 0 THEN 1 ELSE kSysRecordsFirstWriteCopies)

\* a load that takes the last slot that holds a record, whatever its version
RECURSIVE scanSysRecords_NoCompare(_, _, _)
scanSysRecords_NoCompare(slots, i, cur) ==
    IF i = kSysRecordsBackupCount THEN cur
    ELSE scanSysRecords_NoCompare(slots, i + 1,
             IF slots[i].has
             THEN [version |-> slots[i].version, content |-> slots[i].content]
             ELSE cur)

\* the loop of NamespaceImpl::loadLatestSysRecord over the slots i..7: a
\* slot with a record whose version is not below the current one wins
RECURSIVE scanSysRecords(_, _, _)
scanSysRecords(slots, i, cur) ==
    IF i = kSysRecordsBackupCount THEN cur
    ELSE scanSysRecords(slots, i + 1,
             IF slots[i].has /\ slots[i].version >= cur.version
             THEN [version |-> slots[i].version, content |-> slots[i].content]
             ELSE cur)

\* NamespaceImpl::loadLatestSysRecord: the slots, the version counter and the
\* content after the load; with no record in the ring the record of the old
\* format is converted (written with version 0)
loadLatestSysRecord(slots, legacy) ==
    LET latest == scanSysRecords(slots, 0, [version |-> 0, content |-> NoContent]) IN
    IF latest.content = NoContent
    THEN IF legacy # NoContent
         THEN LET w == writeSysRecToStorage(slots, legacy, 0)
              IN [slots |-> w.slots, version |-> w.version, content |-> legacy]
         ELSE [slots |-> slots, version |-> 0, content |-> NoContent]
    ELSE [slots |-> slots, version |-> latest.version + 1, content |-> latest.content]

InitSysRecords ==
    /\ ns = NewNamespace
    /\ obs = <<>>
    /\ seen = EmptyLSN
    /\ lastOp = NoOp
    /\ InitNamespace
    /\ join = <<>>
    /\ books = <<>>
    /\ store = <<>>
    /\ wire = <<>>
    /\ cloners = <<>>
    /\ opt = <<>>
    /\ hashIndex = <<>>
    /\ strHolders = <<>>
    /\ aggregator = <<>>
    /\ commitCnt = <<>>
    /\ nsTags = <<>>
    /\ \E legacy \in SysContents \cup {NoContent} :
          sysRecords = [slots |-> [i \in SysSlots |-> NoSysRecord],
                        legacy |-> legacy, version |-> 0, opened |-> FALSE,
                        loaded |-> FALSE, content |-> NoContent, last |-> legacy]

SysStep(s) ==
    /\ sysRecords' = s
    /\ UNCHANGED <<ns, obs, seen, lastOp, cowVars, join, books, store, wire, cloners,
                   opt, hashIndex, strHolders, aggregator, commitCnt, nsTags>>

\* the namespace is opened over the storage: loadIndexesFromStorage and
\* loadReplStateFromStorage load the latest record of the tag
SysOpen ==
    /\ ~sysRecords.opened
    /\ LET l == loadLatestSysRecord(sysRecords.slots, sysRecords.legacy)
       IN SysStep([sysRecords EXCEPT !.slots = l.slots, !.version = l.version,
                                     !.content = l.content, !.opened = TRUE,
                                     !.loaded = TRUE])

\* saveIndexesToStorage, saveSchemaToStorage, saveReplStateToStorage or the
\* tags flush of the open namespace writes the record of the tag
SysWrite ==
    /\ sysRecords.opened
    /\ sysRecords.version < MaxSysVersion
    /\ \E data \in SysContents :
          LET w == writeSysRecToStorage(sysRecords.slots, data, sysRecords.version)
          IN SysStep([sysRecords EXCEPT !.slots = w.slots, !.version = w.version,
                                        !.loaded = FALSE, !.last = data])

\* the namespace is closed; the next one over the same storage starts with
\* sysRecordsVersions_ zeroed
SysClose ==
    /\ sysRecords.opened
    /\ SysStep([sysRecords EXCEPT !.opened = FALSE, !.loaded = FALSE, !.version = 0,
                                  !.content = NoContent])

NextSysRecords == SysOpen \/ SysWrite \/ SysClose

SpecSysRecords == InitSysRecords /\ [][NextSysRecords]_vars

\* ================================================================ strings holders
\* The holder of the strings that deleted rows and removed indexes leave
\* behind (strHolder_) and the queue of the holders waiting to be deleted
\* (strHoldersWaitingToBeDeleted_). refs counts the shared references held
\* outside the namespace (query results): unique() is refs = 0. hasStrings,
\* bigMem (MemStat() above kMaxMemorySizeOfStringsHolder) and holdsIndexes
\* describe what the current holder keeps. run flips at every run of
\* removeExpiredStrings.
MaxWaiting == 2

MaxRefs == 2

HolderIds == 1..(MaxWaiting + 2)

\* makeStringsHolder
makeStringsHolder(id) ==
    [id |-> id, refs |-> 0, hasStrings |-> FALSE, bigMem |-> FALSE, holdsIndexes |-> FALSE]

WaitingIds(q) == {q[i].id : i \in 1..Len(q)}

\* a loop that takes every unique holder out of the queue
popUnique_All(q) == SelectSeq(q, LAMBDA h : h.refs # 0)

\* the loop of removeExpiredStrings: holders leave the front of the queue
\* while the front one is unique
RECURSIVE popUnique(_)
popUnique(q) ==
    IF q # <<>> /\ q[1].refs = 0 THEN popUnique(Tail(q)) ELSE q

\* NamespaceImpl::removeExpiredStrings
removeExpiredStrings(sh) ==
    LET q == popUnique(sh.waiting) IN
    IF q = <<>> /\ sh.cur.refs = 0
    THEN [sh EXCEPT !.waiting = q, !.cur = makeStringsHolder(sh.cur.id), !.run = ~@]
    ELSE IF sh.cur.holdsIndexes \/ sh.cur.bigMem
         THEN LET q2 == Append(q, sh.cur)
              IN [sh EXCEPT !.waiting = q2,
                            !.cur = makeStringsHolder(
                                        CHOOSE id \in HolderIds :
                                            /\ id \notin WaitingIds(q2)
                                            /\ \A other \in HolderIds \ WaitingIds(q2) : id <= other),
                            !.run = ~@]
         ELSE [sh EXCEPT !.waiting = q, !.run = ~@]

InitStrHolders ==
    /\ ns = NewNamespace
    /\ obs = <<>>
    /\ seen = EmptyLSN
    /\ lastOp = NoOp
    /\ InitNamespace
    /\ join = <<>>
    /\ books = <<>>
    /\ store = <<>>
    /\ wire = <<>>
    /\ cloners = <<>>
    /\ opt = <<>>
    /\ hashIndex = <<>>
    /\ sysRecords = <<>>
    /\ aggregator = <<>>
    /\ commitCnt = <<>>
    /\ nsTags = <<>>
    /\ strHolders = [cur |-> makeStringsHolder(1), waiting |-> <<>>, run |-> FALSE]

StrStep(sh) ==
    /\ strHolders' = sh
    /\ UNCHANGED <<ns, obs, seen, lastOp, cowVars, join, books, store, wire, cloners,
                   opt, hashIndex, sysRecords, aggregator, commitCnt, nsTags>>

\* NamespaceImpl::StrHolder: a select takes a reference to the current holder
\* for its results
StrHolder ==
    /\ strHolders.cur.refs < MaxRefs
    /\ StrStep([strHolders EXCEPT !.cur.refs = @ + 1])

\* query results are destroyed: a reference to the current holder is dropped
StrDropCur ==
    /\ strHolders.cur.refs > 0
    /\ StrStep([strHolders EXCEPT !.cur.refs = @ - 1])

\* query results are destroyed: a reference to a waiting holder is dropped
StrDropWaiting ==
    \E i \in 1..Len(strHolders.waiting) :
        /\ strHolders.waiting[i].refs > 0
        /\ StrStep([strHolders EXCEPT !.waiting[i].refs = @ - 1])

\* a write deletes or replaces a row: the indexes hand the strings of the
\* old values to the current holder
StrDelete ==
    /\ Len(strHolders.waiting) < MaxWaiting
    /\ \E big \in BOOLEAN :
          StrStep([strHolders EXCEPT !.cur.hasStrings = TRUE,
                                     !.cur.bigMem = @ \/ big])

\* NamespaceImpl::removeIndex of an index that holds strings
removeIndex ==
    /\ Len(strHolders.waiting) < MaxWaiting
    /\ ~(strHolders.waiting = <<>> /\ strHolders.cur.refs = 0)
    /\ StrStep([strHolders EXCEPT !.cur.holdsIndexes = TRUE])

\* NamespaceImpl::BackgroundRoutine reaches removeExpiredStrings
StrBackgroundRoutine ==
    /\ strHolders' = removeExpiredStrings(strHolders)
    /\ UNCHANGED <<ns, obs, seen, lastOp, cowVars, join, books, store, wire, cloners,
                   opt, hashIndex, sysRecords, aggregator, commitCnt, nsTags>>

NextStrHolders ==
    \/ StrHolder
    \/ StrDropCur
    \/ StrDropWaiting
    \/ StrDelete
    \/ removeIndex
    \/ StrBackgroundRoutine

SpecStrHolders == InitStrHolders /\ [][NextStrHolders]_vars

\* ================================================================ aggregations
\* The aggregator of one aggregation of a select. A double is modelled by an
\* integer count of half units: the aggregated values are the multiples of
\* AggUnit up to MaxAggVal units either way, DoubleMin stands for
\* std::numeric_limits<double>::min(), the smallest positive normalised
\* double, which lies between 0 and every positive value, and DoubleMax for
\* std::numeric_limits<double>::max(), which lies above every value.
MaxAggVal == 2

MaxAggLen == 3

AggUnit == 2

DoubleMin == 1

DoubleMax == MaxAggVal * AggUnit + 1

AggValues == {k * AggUnit : k \in (0 - MaxAggVal)..MaxAggVal}

AggTypes == {"AggMin", "AggMax", "AggSum"}

NoAggResult == [has |-> FALSE, value |-> 0]

\* an aggregator whose Max starts below every value
Aggregator_FromLowest(aggType) ==
    [aggType |-> aggType,
     result |-> CASE aggType = "AggMin" -> DoubleMax
                  [] aggType = "AggMax" -> 0 - DoubleMax
                  [] OTHER -> 0,
     values |-> <<>>, ret |-> NoAggResult]

\* Aggregator::Aggregator
Aggregator(aggType) ==
    [aggType |-> aggType,
     result |-> CASE aggType = "AggMin" -> DoubleMax
                  [] aggType = "AggMax" -> DoubleMin
                  [] OTHER -> 0,
     values |-> <<>>, ret |-> NoAggResult]

\* Aggregator::aggregate
aggregate(a, v) ==
    [a EXCEPT !.result = CASE a.aggType = "AggSum" -> @ + v
                           [] a.aggType = "AggMin" -> IF v < @ THEN v ELSE @
                           [] a.aggType = "AggMax" -> IF @ < v THEN v ELSE @,
              !.values = Append(@, v)]

\* Aggregator::GetResult
GetResult(a) == [a EXCEPT !.ret = [has |-> TRUE, value |-> a.result]]

InitAggregator ==
    /\ ns = NewNamespace
    /\ obs = <<>>
    /\ seen = EmptyLSN
    /\ lastOp = NoOp
    /\ InitNamespace
    /\ join = <<>>
    /\ books = <<>>
    /\ store = <<>>
    /\ wire = <<>>
    /\ cloners = <<>>
    /\ opt = <<>>
    /\ hashIndex = <<>>
    /\ sysRecords = <<>>
    /\ strHolders = <<>>
    /\ commitCnt = <<>>
    /\ nsTags = <<>>
    /\ \E aggType \in AggTypes : aggregator = Aggregator(aggType)

AggStep(a) ==
    /\ aggregator' = a
    /\ UNCHANGED <<ns, obs, seen, lastOp, cowVars, join, books, store, wire, cloners,
                   opt, hashIndex, sysRecords, strHolders, commitCnt, nsTags>>

\* Aggregator::Aggregate of a row: the value of its field is aggregated
AggAggregate ==
    /\ ~aggregator.ret.has
    /\ Len(aggregator.values) < MaxAggLen
    /\ \E v \in AggValues : AggStep(aggregate(aggregator, v))

\* the select is over: the result is taken
AggGetResult ==
    /\ ~aggregator.ret.has
    /\ AggStep(GetResult(aggregator))

\* the next select constructs its aggregator
AggNew ==
    /\ aggregator.ret.has
    /\ \E aggType \in AggTypes : AggStep(Aggregator(aggType))

NextAggregator == AggAggregate \/ AggGetResult \/ AggNew

SpecAggregator == InitAggregator /\ [][NextAggregator]_vars

\* ================================================================ cancelCommitCnt
\* The counter the optimizer polls (cancelCommitCnt_) and the operations
\* that take the lock of the namespace. Each thread runs one operation at a
\* time: "modify" stands for the operations that take the write lock under a
\* CounterGuardAIR32 (item modifications, update and delete queries,
\* truncate, the commit of a transaction in place, ReplaceTagsMatcher),
\* "index" for those that take the write lock without one (AddIndex,
\* UpdateIndex, DropIndex, SetSchema, PutMeta, the background routine),
\* "copyCommit" for the commit of a transaction through a copy, which takes
\* the read lock under a guard, and "select" for a reader. thrown tells that
\* the last step was a lock acquisition that was cancelled or threw.
MaxThreads == 3

CommitThreads == 1..MaxThreads

OpKinds == {"modify", "index", "copyCommit", "select"}

Guarded == {"modify", "copyCommit"}

TakesWriteLock == {"modify", "index"}

\* the destructor of a guard that was not Reset
CounterGuard_Keep(counter) == counter

\* the constructor of CounterGuardAIR32
CounterGuard(counter) == counter + 1

\* CounterGuardAIR32::Reset, and the destructor of a guard that was not Reset
CounterGuard_Reset(counter) == counter - 1

InitCommitCnt ==
    /\ ns = NewNamespace
    /\ obs = <<>>
    /\ seen = EmptyLSN
    /\ lastOp = NoOp
    /\ InitNamespace
    /\ join = <<>>
    /\ books = <<>>
    /\ store = <<>>
    /\ wire = <<>>
    /\ cloners = <<>>
    /\ opt = <<>>
    /\ hashIndex = <<>>
    /\ sysRecords = <<>>
    /\ strHolders = <<>>
    /\ aggregator = <<>>
    /\ nsTags = <<>>
    /\ commitCnt = [cancelCommitCnt |-> 0,
                    pc |-> [t \in CommitThreads |-> "idle"],
                    kind |-> [t \in CommitThreads |-> "select"],
                    wlock |-> 0, rlocks |-> {}, thrown |-> FALSE]

CntStep(c) ==
    /\ commitCnt' = c
    /\ UNCHANGED <<ns, obs, seen, lastOp, cowVars, join, books, store, wire, cloners,
                   opt, hashIndex, sysRecords, strHolders, aggregator, nsTags>>

\* an operation starts: the guard, where the operation has one, is
\* constructed and the thread goes on to take the lock
CntEnter ==
    \E t \in CommitThreads, kind \in OpKinds :
        /\ commitCnt.pc[t] = "idle"
        /\ CntStep([commitCnt EXCEPT !.pc[t] = "wait", !.kind[t] = kind,
                                     !.cancelCommitCnt =
                                         IF kind \in Guarded THEN CounterGuard(@) ELSE @,
                                     !.thrown = FALSE])

\* wlck = wLock(ctx) returns, and cg.Reset() where there is a guard
CntWLock ==
    \E t \in CommitThreads :
        /\ commitCnt.pc[t] = "wait" /\ commitCnt.kind[t] \in TakesWriteLock
        /\ commitCnt.wlock = 0 /\ commitCnt.rlocks = {}
        /\ CntStep([commitCnt EXCEPT !.pc[t] = "hold", !.wlock = t,
                                     !.cancelCommitCnt =
                                         IF commitCnt.kind[t] \in Guarded
                                         THEN CounterGuard_Reset(@) ELSE @,
                                     !.thrown = FALSE])

\* rlck = rLock(ctx) returns, and for the commit through a copy the storage
\* lock is taken and cg.Reset() called
CntRLock ==
    \E t \in CommitThreads :
        /\ commitCnt.pc[t] = "wait" /\ commitCnt.kind[t] \notin TakesWriteLock
        /\ commitCnt.wlock = 0
        /\ CntStep([commitCnt EXCEPT !.pc[t] = "hold", !.rlocks = @ \cup {t},
                                     !.cancelCommitCnt =
                                         IF commitCnt.kind[t] \in Guarded
                                         THEN CounterGuard_Reset(@) ELSE @,
                                     !.thrown = FALSE])

\* the context of a waiting operation is cancelled or its deadline passes:
\* the lock acquisition throws and the guard, if any, is destroyed
CntThrow ==
    \E t \in CommitThreads :
        /\ commitCnt.pc[t] = "wait"
        /\ CntStep([commitCnt EXCEPT !.pc[t] = "idle",
                                     !.cancelCommitCnt =
                                         IF commitCnt.kind[t] \in Guarded
                                         THEN CounterGuard_Reset(@) ELSE @,
                                     !.thrown = TRUE])

\* the operation ends and its lock is released
CntUnlock ==
    \E t \in CommitThreads :
        /\ commitCnt.pc[t] = "hold"
        /\ CntStep([commitCnt EXCEPT !.pc[t] = "idle",
                                     !.wlock = IF @ = t THEN 0 ELSE @,
                                     !.rlocks = @ \ {t},
                                     !.thrown = FALSE])

NextCommitCnt == CntEnter \/ CntWLock \/ CntRLock \/ CntThrow \/ CntUnlock

SpecCommitCnt == InitCommitCnt /\ [][NextCommitCnt]_vars

\* ================================================================ properties

\* ------------------------------------------------- copy-on-write commit
\* C1 as stated: every select that reads while a copy-on-write commit is in
\* progress sees the data as it was before that commit or as it is after it.
C1_EveryReaderSeesPreOrPost ==
    [][(pc.reader = "read" /\ pc'.reader = "unlock" /\ hasCopy)
        => snap' \in {cowPre, cowPost}]_vars

\* an instance that the namespace pointer has left: neither the main
\* namespace nor the clone under construction
Replaced(i) == i # mainNs /\ i # nsCopy

\* C1: a select that reads the source of the commit or the clone swapped in
\* while a copy-on-write commit is in progress sees the data as it was before
\* the commit or as it is after the whole transaction, never a state with only
\* some of the steps applied. (A select still holding the read lock of an
\* instance replaced by an earlier commit reads that instance: older data.)
C1_ReaderSeesPreOrPost ==
    [][(pc.reader = "read" /\ pc'.reader = "unlock" /\ hasCopy /\ ~Replaced(ptr.reader))
        => snap' \in {cowPre, cowPost}]_vars

\* a select has read the old data under the source's read lock while the
\* clone holds a part of the transaction
C1_Witness ==
    /\ hasCopy
    /\ nsCopy # 0
    /\ pc.committer = "txstep"
    /\ Len(txn.left) < Len(txn.steps)
    /\ Data(inst[nsCopy].impl) # cowPre
    /\ Data(inst[nsCopy].impl) # cowPost
    /\ pc.reader = "unlock"
    /\ ptr.reader = ptr.committer
    /\ snap = cowPre

\* C2: once the clone is the main namespace, a lock requested through the
\* old pointer is refused with NamespaceInvalidated, and the replaced
\* instance is never written again.
C2_OldPointerInvalidated ==
    [][/\ \A t \in {"reader", "writer"} :
            (pc[t] = "lock" /\ pc'[t] # "lock" /\ Replaced(ptr[t]))
                => res'[t] = errNamespaceInvalidated
       /\ \A i \in 1..Len(inst) :
            (Replaced(i) /\ i <= Len(inst')) => inst'[i].impl = inst[i].impl]_vars

\* a writer that loaded the pointer before the swap was refused afterwards
C2_Witness ==
    /\ res.writer = errNamespaceInvalidated
    /\ Replaced(ptr.writer)
    /\ inst[ptr.writer].impl.readOnly
    /\ inst[mainNs].impl.lsnCounter > inst[ptr.writer].impl.lsnCounter

\* the LSN counters the observers got: the last one before the call, then the
\* call's, in delivery order
DeliveredLsns ==
    (IF seen = EmptyLSN THEN <<>> ELSE <<seen>>) \o [i \in 1..Len(obs) |-> obs[i].lsn]

NoOriginCall == lastOp'.fromReplication /\ lastOp'.originLSN = EmptyLSN

TxBrackets == {"WalInitTransaction", "WalCommitTransaction"}

RECURSIVE XorOver(_, _)
XorOver(n, S) ==
    IF S = {} THEN 0
    ELSE LET id == CHOOSE x \in S : TRUE
         IN Xor(GetHash(ItemAt(n, id), n.indexes), XorOver(n, S \ {id}))

\* C8: after any sequence of item operations, queries, truncates and index
\* changes, dataHash is the XOR of the payload hashes of exactly the live items
C8_DataHashOfLiveItems == ns.dataHash = XorOver(ns, LiveIds(ns))

\* an update query has rewritten two live rows and the hash is not the empty one
C8_Witness ==
    /\ lastOp.op = "UpdateQuery" /\ lastOp.err = errOK
    /\ Cardinality(LiveIds(ns)) = 2
    /\ \A id \in LiveIds(ns) : ItemAt(ns, id).arr # <<>>
    /\ ns.dataHash # 0

IndexMatchesItems(n, idx, name) ==
    IF n.indexes[name] = "none" THEN idx = EmptyIndex
    ELSE /\ \A k \in DOMAIN idx.idx_map :
              idx.idx_map[k] = {id \in LiveIds(n) : k \in SeqToSet(FieldKeys(ItemAt(n, id), name))}
         /\ idx.empty_ids = {id \in LiveIds(n) : FieldKeys(ItemAt(n, id), name) = <<>>}

\* C10: for every key of every index, the id set of the key is exactly the set
\* of ids whose current payload holds the key in the indexed field, a null
\* value being filed in the empty-ids bucket
C10_IndexMatchesItems ==
    /\ IndexMatchesItems(ns, ns.idxPk, "id")
    /\ IndexMatchesItems(ns, ns.idxArr, "arr")

\* an upsert has moved an item between a key and the empty-ids bucket while
\* another item holds a key
C10_Witness ==
    /\ lastOp.op = "Upsert" /\ lastOp.err = errOK
    /\ ns.idxArr.empty_ids # {}
    /\ \E k \in Vals : ns.idxArr.idx_map[k] # {}

\* the index name is a sub-index of a composite index of n
IsComponent(n, name) ==
    /\ PosOf(n, name) # 0
    /\ \E i \in 1..Len(n.defs) :
          /\ IsComposite(n.defs[i].type)
          /\ \E k \in 1..Len(n.defs[i].jsonPaths) : n.defs[i].jsonPaths[k] = name

\* C18: DropIndex on an index whose field is a component of an existing
\* composite index fails with the error code Conflict
C18_DropComponentConflict ==
    [][(lastOp'.op = "DropIndex" /\ IsComponent(ns, lastOp'.indexDef.name))
         => lastOp'.err = errConflict]_vars

\* the indexes of n that are not composite
NonComposite(n) == {i \in 1..Len(n.defs) : ~IsComposite(n.defs[i].type)}

AddsField(n, op) ==
    /\ op.op = "AddIndex"
    /\ ~IsComposite(op.indexDef.type)
    /\ PosOf(n, op.indexDef.name) = 0

PKIndexes(n) == {i \in 1..Len(n.defs) : n.defs[i].isPK}

\* C20: after any sequence of AddIndex, UpdateIndex and DropIndex calls,
\* successful or failed, at most one index of the namespace has the PK option
C20_AtMostOnePK == Cardinality(PKIndexes(ns)) <= 1

\* a second PK index was asked for and refused, the first one is in place
C20_Witness ==
    /\ lastOp.op \in {"AddIndex", "UpdateIndex"}
    /\ lastOp.err = errConflict
    /\ lastOp.indexDef.isPK
    /\ ns.pkPos # 0
    /\ ns.defs[ns.pkPos].name # lastOp.indexDef.name
    /\ Cardinality(PKIndexes(ns)) = 1

\* C15: a configuration update that changes the server id of a namespace
\* that holds items leaves the namespace in the read-only role, with the
\* change of the server id recorded.
C15_ServerIdChangeReadOnly ==
    [][(lastOp'.op = "OnConfigUpdated" /\ ns'.serverId # ns.serverId /\ LiveIds(ns) # {})
          => /\ ReplicationRole(ns') = "ReplicationReadOnly"
             /\ ns'.serverIdChanged]_vars

\* the server id of a master with an item was changed from 0 to 1: the
\* namespace is read-only
C15_Witness ==
    /\ lastOp.op = "OnConfigUpdated"
    /\ ns.serverId = 1 /\ ns.serverIdChanged
    /\ LiveIds(ns) # {}
    /\ ReplicationRole(ns) = "ReplicationReadOnly"

\* C16: a configuration update that switches a slave to a master leaves the
\* last upstream LSN empty and the origin LSN made of the counter of the last
\* WAL record and the server id of the namespace.
C16_SlaveToMasterLSNs ==
    [][(/\ lastOp'.op = "OnConfigUpdated"
        /\ ReplicationRole(ns) = "ReplicationSlave"
        /\ ReplicationRole(ns') = "ReplicationMaster")
          => /\ ns'.lastUpstreamLSN.counter = EmptyLSN
             /\ ns'.originLSN = lsn_t(ns.lsnCounter - 1, ns'.serverId)]_vars

\* a namespace whose replication had failed as a slave is a master after a
\* configuration update: no upstream LSN, the origin LSN is that of its last
\* WAL record under its own server id
C16_Witness ==
    /\ lastOp.op = "OnConfigUpdated"
    /\ ReplicationRole(ns) = "ReplicationMaster" /\ ns.status = "Fatal"
    /\ ns.lsnCounter > 1
    /\ ns.lastUpstreamLSN = lsn_t(EmptyLSN, 0)
    /\ ns.originLSN = lsn_t(ns.lsnCounter - 1, ns.serverId)

\* the events a call delivered are count records of the given type
EventsAre(o, count, type) == Len(o) = count /\ \A i \in 1..Len(o) : o[i].type = type

\* C17: a successful update query over a namespace writes exactly one WAL
\* record, the query as a statement, when it has no expression, no JSON
\* assignment, no limit, no offset and selects at least 5 rows; otherwise it
\* writes one item record per selected row.
C17_StatementOrRows ==
    [][(lastOp'.op = "UpdateQuery" /\ lastOp'.err = errOK)
          => LET q == lastOp'.q
                 count == Len(Select(ns, q))
             IN IF ~q.isExpression /\ ~q.setJson /\ ~q.hasLimit /\ ~q.hasOffset /\ count >= 5
                THEN /\ ns'.lsnCounter = ns.lsnCounter + 1
                     /\ EventsAre(obs', 1, "WalUpdateQuery")
                ELSE /\ ns'.lsnCounter = ns.lsnCounter + count
                     /\ EventsAre(obs', count, "WalItemModify")]_vars

\* an update query with no expression, JSON assignment, limit or offset over
\* five rows has delivered one statement record and nothing else
C17_Witness ==
    /\ lastOp.op = "UpdateQuery" /\ lastOp.err = errOK
    /\ ~lastOp.q.hasLimit /\ ~lastOp.q.isExpression /\ ~lastOp.q.setJson /\ ~lastOp.q.hasOffset
    /\ Cardinality(LiveIds(ns)) = kWALStatementItemsThreshold
    /\ EventsAre(obs, 1, "WalUpdateQuery")

\* from namespace n to namespace m every item live in both has kept its id,
\* and every id that became live is past the end of the items vector of n or
\* was in the free list of n with its slot free
IdsStable(n, m) ==
    /\ \A id \in LiveIds(n) : \A id2 \in LiveIds(m) :
          (ItemAt(n, id).pk = ItemAt(m, id2).pk) = (id = id2)
    /\ \A id \in LiveIds(m) \ LiveIds(n) :
          \/ id >= Len(n.items)
          \/ id \in SeqToSet(n.free) /\ ItemAt(n, id).isFree

\* the steps of a commit one after another, from the result r of the
\* previous one
RECURSIVE StepsStable(_, _, _, _)
StepsStable(n, r, steps, ctx) ==
    /\ IdsStable(n, r.ns)
    /\ \/ r.err # errOK
       \/ steps = <<>>
       \/ StepsStable(r.ns, TxStep(r.ns, r.obs, Head(steps), ctx), Tail(steps), ctx)

CommitStable(n, o, steps, ctx) ==
    wLock(n, ctx) # errOK \/ StepsStable(n, TxInit(n, o, TxCtx(ctx, n)), steps, TxCtx(ctx, n))

\* C14: every call keeps the id of every item that is live before and after
\* it, and an id it makes live (item calls, queries, index changes, and each
\* step of a transaction in its turn) is either past the end of the items
\* vector or taken from the free list, where its slot was free.
C14_StableIds ==
    /\ [](\A steps \in StepSeqs(MaxTxSteps), ctx \in Ctxs : CommitStable(ns, obs, steps, ctx))
    /\ [][lastOp'.op # "CommitTransaction" => IdsStable(ns, ns')]_vars

\* an insert has put a new item past the end of the items vector while the
\* item of slot 0 has kept its id
C14_Witness ==
    /\ lastOp.op = "Insert" /\ lastOp.err = errOK
    /\ LiveIds(ns) = {0, 1} /\ ns.free = <<>>
    /\ ItemAt(ns, 0).pk = 2 /\ ItemAt(ns, 1).pk = 1

\* the commit works on the clone: from the copy constructor to the last step
ClonePhase == {"clone", "txinit", "txstep"}

\* C13: while the commit works on the clone the source namespace stays the
\* main one, writable and unchanged (items, indexes, WAL counter and every
\* other member); when the commit on the clone fails the caller gets the
\* error, the clone is discarded and no copy is left.
C13_FailedCloneLeavesSource ==
    [][pc.committer \in ClonePhase
          => /\ mainNs' = mainNs /\ mainNs = ptr.committer
             /\ inst'[mainNs].impl = inst[mainNs].impl
             /\ ~inst[mainNs].impl.readOnly
             /\ pc'.committer = "idle"
                   => /\ res'.committer \notin {errOK, "pending"}
                      /\ nsCopy = Len(inst) /\ Len(inst') = Len(inst) - 1
                      /\ nsCopy' = 0 /\ ~hasCopy']_vars

\* a commit on a clone has failed after the clone was written to: the main
\* namespace holds the one WAL record of its index, the copy is gone
C13_Witness ==
    /\ pc.committer = "idle" /\ res.committer = errLogic
    /\ Len(inst) = 1 /\ mainNs = 1 /\ nsCopy = 0 /\ ~hasCopy
    /\ inst[1].impl.lsnCounter = 1
    /\ ~inst[1].impl.readOnly

\* what a modification of the namespace may change: the items, the indexes,
\* the meta and the schema
Content(n) == [data |-> Data(n), meta |-> n.meta, schema |-> n.schema]

CachesEmpty(n) == n.queryCache = {} /\ n.joinCache = {}

Modifications ==
    {"Insert", "Update", "Upsert", "Delete", "UpdateQuery", "DeleteQuery", "Truncate",
     "AddIndex", "UpdateIndex", "DropIndex", "SetSchema", "PutMeta"}

BucketIds(idx) == UNION {idx.idx_map[k] : k \in DOMAIN idx.idx_map} \cup idx.empty_ids

\* C11: in every reachable namespace state every id held in a bucket of an
\* index is an id of the items vector whose slot is not free.
C11_BucketIdsAreLive ==
    \A id \in BucketIds(ns.idxPk) \cup BucketIds(ns.idxArr) : exists(ns, id)

\* a delete has freed slot 0 while the item of slot 1 stays in the buckets of
\* both indexes
C11_Witness ==
    /\ lastOp.op \in {"Delete", "DeleteQuery"} /\ lastOp.err = errOK
    /\ Len(ns.items) = 2 /\ ns.free = <<0>>
    /\ BucketIds(ns.idxPk) = {1}
    /\ BucketIds(ns.idxArr) = {1}

\* ---------------------------------------------- replication role refusals
MutatingOps ==
    {"Insert", "Update", "Upsert", "Delete", "UpdateQuery", "DeleteQuery", "Truncate",
     "PutMeta", "AddIndex", "UpdateIndex", "DropIndex", "CommitTransaction"}

\* C5: while the namespace's role is read-only (slave mode set, replicator
\* not enabled) every mutating operation (item insert, update, upsert,
\* delete, update query, delete query, truncate, meta put, index add, update
\* and drop, transaction commit) is refused with an error.
C5_ReadOnlyRefuses ==
    (lastOp.op \in MutatingOps /\ ReplicationRole(ns) = "ReplicationReadOnly")
        => lastOp.err # errOK

\* C6: while the namespace's role is slave, a mutating operation that does
\* not come from replication is refused with an error.
C6_SlaveRefusesLocal ==
    (lastOp.op \in MutatingOps /\ ReplicationRole(ns) = "ReplicationSlave"
        /\ ~lastOp.fromReplication)
        => lastOp.err # errOK

\* C7: while the replication status of the namespace is Fatal, every write,
\* local or replicated, is refused with an error.
C7_FatalRefuses ==
    (lastOp.op \in MutatingOps /\ ns.status = "Fatal") => lastOp.err # errOK

\* ------------------------------------------------------------ item calls
\* the select of the rows whose PK is pk
SelectByPK(n, pk) == Select(n, Query(pk, <<>>, FALSE, FALSE, FALSE, FALSE))

\* the context of the call a step made
CallCtx(op) == Ctx(op.fromReplication, op.originLSN)

\* a successful Insert of an item whose PK the namespace holds
InsertOfExisting(n, op) ==
    op.op = "Insert" /\ op.err = errOK /\ findByPK(n, op.item.pk).exists

MaxJoinRows == 2
kMaxIterationsScaleForInnerJoinOptimization == 100
OpAnd == "OpAnd"
OpOr == "OpOr"
CondEq == "CondEq"
CondSet == "CondSet"
InnerJoin == "InnerJoin"

\* QueryJoinEntry: index_ names the left index, joinIndex_ the right field;
\* isSparse is Opts().IsSparse() of the left index
QueryJoinEntry(op, condition, index, joinIndex, isSparse) ==
    [op |-> op, condition |-> condition, index |-> index, joinIndex |-> joinIndex,
     isSparse |-> isSparse]

\* payload.Get of the left row: the values of the field, none when it is not set
LeftValues(payload, index) == IF payload[index] = Null THEN {} ELSE {payload[index]}

\* one entry of the item query over a right row: the right field is among
\* the values put into the entry; AlwaysFalse when there are none
EntrySatisfied(item, je, values) == values # {} /\ item[je.joinIndex] \in values

\* QueryEntries::CheckIfSatisfyConditions over the entries 1..i, each linked
\* to the ones before it by its op
RECURSIVE CheckIfSatisfyConditions(_, _, _, _)
CheckIfSatisfyConditions(item, on, payload, i) ==
    IF i = 0 THEN TRUE
    ELSE LET this == EntrySatisfied(item, on[i], LeftValues(payload, on[i].index))
         IN IF i = 1 THEN this
            ELSE IF on[i].op = OpOr
                 THEN CheckIfSatisfyConditions(item, on, payload, i - 1) \/ this
                 ELSE CheckIfSatisfyConditions(item, on, payload, i - 1) /\ this

\* JoinedSelector::selectFromPreResultValues: matched, which counts the right
\* rows that satisfy the item query until it exceeds the limit count
RECURSIVE selectFromPreResultValues(_, _, _, _, _, _)
selectFromPreResultValues(values, on, payload, count, k, matched) ==
    IF k > Len(values) THEN matched
    ELSE IF CheckIfSatisfyConditions(values[k], on, payload, Len(on))
         THEN IF matched + 1 > count THEN matched + 1
              ELSE selectFromPreResultValues(values, on, payload, count, k + 1, matched + 1)
         ELSE selectFromPreResultValues(values, on, payload, count, k + 1, matched)

\* Process that skips the select over the right rows whenever the join was inlined
Process_TrustInlined(js, payload, match) ==
    IF js.optimized THEN TRUE
    ELSE selectFromPreResultValues(js.values, js.on, payload,
                                   IF match THEN js.count ELSE 0, 1, 0) > 0

\* JoinedSelector::Process: matchedAtLeastOnce
Process(js, payload, match) ==
    IF js.optimized /\ ~match THEN TRUE
    ELSE selectFromPreResultValues(js.values, js.on, payload,
                                   IF match THEN js.count ELSE 0, 1, 0) > 0

\* readValuesFromPreResult: the values of the right field over the pre-result
readValuesFromPreResult(js, joinIndex) ==
    {js.values[k][joinIndex] : k \in 1..Len(js.values)}

\* leftIndex->SelectKey(values, CondSet): the ids of the left rows that hold
\* one of the values
Index_SelectKey(left, index, values) ==
    {rowId \in 1..Len(left) : LeftValues(left[rowId], index) \cap values # {}}

\* the entries of the join that are inlined
Inlined(on) ==
    {i \in 1..Len(on) :
        ~(\/ on[i].op # OpAnd
          \/ on[i].condition \notin {CondEq, CondSet}
          \/ (i + 1 <= Len(on) /\ on[i + 1].op = OpOr)
          \/ on[i].isSparse)}

\* JoinedSelector::AppendSelectIteratorOfJoinIndexData: the id sets appended
\* to the iterators with OpAnd, and optimized_
AppendSelectIteratorOfJoinIndexData(js, left, maxIterations) ==
    IF js.joinType # InnerJoin
       \/ Len(js.values) > maxIterations * kMaxIterationsScaleForInnerJoinOptimization
    THEN [js |-> js, iterators |-> {}]
    ELSE [js |-> [js EXCEPT !.optimized = Cardinality(Inlined(js.on)) = Len(js.on)],
          iterators |-> {Index_SelectKey(left, js.on[i].index,
                                         readValuesFromPreResult(js, js.on[i].joinIndex)) :
                            i \in Inlined(js.on)}]

\* the rows of the namespaces and the ON lists of the joins
LeftRowSet == {[a |-> a, b |-> b] : a \in {Null, 1, 2}, b \in {1, 2}}
RightRowSet == {[x |-> x, y |-> y] : x \in {1, 2}, y \in {1, 2}}

RECURSIVE RowSeqs(_, _)
RowSeqs(S, k) ==
    IF k = 0 THEN {<<>>}
    ELSE LET prev == RowSeqs(S, k - 1)
         IN prev \cup {Append(s, r) : s \in {p \in prev : Len(p) = k - 1}, r \in S}

JoinOns ==
    {<<QueryJoinEntry(OpAnd, CondEq, "a", "x", FALSE)>>,
     <<QueryJoinEntry(OpAnd, CondEq, "a", "x", FALSE), QueryJoinEntry(OpAnd, CondSet, "b", "y", FALSE)>>,
     <<QueryJoinEntry(OpAnd, CondEq, "a", "x", FALSE), QueryJoinEntry(OpAnd, CondEq, "b", "y", TRUE)>>,
     <<QueryJoinEntry(OpAnd, CondEq, "a", "x", FALSE), QueryJoinEntry(OpOr, CondEq, "b", "y", FALSE)>>}

\* a select with an inner join is about to be planned
InitJoin ==
    /\ ns = NewNamespace
    /\ obs = <<>>
    /\ seen = EmptyLSN
    /\ lastOp = NoOp
    /\ InitNamespace
    /\ cloners = <<>>
    /\ opt = <<>>
    /\ hashIndex = <<>>
    /\ sysRecords = <<>>
    /\ strHolders = <<>>
    /\ aggregator = <<>>
    /\ commitCnt = <<>>
    /\ nsTags = <<>>
    /\ wire = <<>>
    /\ \E left \in RowSeqs(LeftRowSet, MaxJoinRows), values \in RowSeqs(RightRowSet, MaxJoinRows),
          on \in JoinOns, maxIterations \in {0, 1} :
          join = [js |-> [joinType |-> InnerJoin, on |-> on, values |-> values, count |-> 1,
                          optimized |-> FALSE],
                  left |-> left, maxIterations |-> maxIterations, iterators |-> {},
                  phase |-> "plan", rowId |-> 1, rows |-> {}, unmatched |-> {}]
    /\ books = <<>>
    /\ store = <<>>

\* the plan: the join is inlined where it can be
AppendJoinIterators ==
    /\ join # <<>> /\ join.phase = "plan"
    /\ LET r == AppendSelectIteratorOfJoinIndexData(join.js, join.left, join.maxIterations)
       IN join' = [join EXCEPT !.js = r.js, !.iterators = r.iterators, !.phase = "walk"]
    /\ UNCHANGED <<ns, obs, seen, lastOp, cowVars, books, store, wire, cloners, opt,
                 hashIndex, sysRecords, strHolders, aggregator, commitCnt, nsTags>>

\* the walk comes to a row that an appended iterator does not hold
SkipRow ==
    /\ join # <<>> /\ join.phase = "walk" /\ join.rowId <= Len(join.left)
    /\ \E it \in join.iterators : join.rowId \notin it
    /\ join' = [join EXCEPT !.rowId = @ + 1]
    /\ UNCHANGED <<ns, obs, seen, lastOp, cowVars, books, store, wire, cloners, opt,
                 hashIndex, sysRecords, strHolders, aggregator, commitCnt, nsTags>>

\* the walk comes to a row that every iterator holds: the joined selector
\* is asked, with match as the caller sets it
ProcessRow ==
    /\ join # <<>> /\ join.phase = "walk" /\ join.rowId <= Len(join.left)
    /\ \A it \in join.iterators : join.rowId \in it
    /\ \E match \in BOOLEAN :
          join' = [join EXCEPT
                     !.rowId = @ + 1,
                     !.rows = IF Process(join.js, join.left[join.rowId], match)
                              THEN @ \cup {join.rowId} ELSE @,
                     !.unmatched = IF match THEN @ ELSE @ \cup {join.rowId}]
    /\ UNCHANGED <<ns, obs, seen, lastOp, cowVars, books, store, wire, cloners, opt,
                 hashIndex, sysRecords, strHolders, aggregator, commitCnt, nsTags>>

FinishWalk ==
    /\ join # <<>> /\ join.phase = "walk" /\ join.rowId > Len(join.left)
    /\ join' = [join EXCEPT !.phase = "done"]
    /\ UNCHANGED <<ns, obs, seen, lastOp, cowVars, books, store, wire, cloners, opt,
                 hashIndex, sysRecords, strHolders, aggregator, commitCnt, nsTags>>

NextJoin == AppendJoinIterators \/ SkipRow \/ ProcessRow \/ FinishWalk

SpecJoin == InitJoin /\ [][NextJoin]_vars

\* the left rows for which the join, evaluated once per row, finds a right row
PerRowRows(j) ==
    {rowId \in 1..Len(j.left) :
        selectFromPreResultValues(j.js.values, j.js.on, j.left[rowId], j.js.count, 1, 0) > 0}

\* the left rows of the query in which every inlined ON entry is replaced by
\* an IN-list of the right-side values
InListRows(j) ==
    {rowId \in 1..Len(j.left) :
        \A i \in Inlined(j.js.on) :
            LeftValues(j.left[rowId], j.js.on[i].index)
                \cap {j.js.values[k][j.js.on[i].joinIndex] : k \in 1..Len(j.js.values)} # {}}

\* a walk is over whose join was inlined, wholly or in part
InlinedDone(j) == j # <<>> /\ j.phase = "done" /\ j.iterators # {}

\* C22 as stated: an inlined inner join returns exactly the left rows of the
\* join evaluated once per left row, which are the rows of the query with
\* the join replaced by IN-lists of the right-side values
C22_InlinedEqualsPerRow ==
    InlinedDone(join) =>
        /\ join.rows = PerRowRows(join)
        /\ join.js.optimized => join.rows = InListRows(join)

\* C22 amended: no row that the per-row join matches is lost and every row
\* returned passes the IN-lists; a row processed with match set is returned
\* exactly when the per-row join matches it; a row processed without match
\* under a wholly inlined join is returned on the IN-lists alone; with one ON
\* entry the three evaluations return the same rows
C22_InlinedJoinRows ==
    InlinedDone(join) =>
        /\ PerRowRows(join) \subseteq join.rows
        /\ join.rows \subseteq InListRows(join)
        /\ join.rows \ join.unmatched = PerRowRows(join) \ join.unmatched
        /\ join.js.optimized =>
              join.rows \cap join.unmatched = InListRows(join) \cap join.unmatched
        /\ Len(join.js.on) = 1 =>
              join.rows = PerRowRows(join) /\ join.rows = InListRows(join)

\* a join of one ON entry was inlined, rows were processed with and without
\* match, one row passed and one did not
C22_Witness ==
    /\ InlinedDone(join) /\ join.js.optimized /\ Len(join.js.on) = 1
    /\ join.unmatched # {} /\ join.unmatched # 1..Len(join.left)
    /\ join.rows # {} /\ join.rows # 1..Len(join.left)

\* ------------------------------------------------- composite index keys
\* items with the PK "id", the indexed fields "price" and "pages" and the
\* field "title" that no index holds; the composite index is over "price"
\* and a second component: the payload field "pages" or the JSON path "title"
MaxBooks == 2
BookVals == 1..2
Books == [id : 1..MaxBooks, price : BookVals, pages : BookVals, title : BookVals]

\* the components of the composite index: its payload fields (Fields()
\* without SetByJsonPath) and its tags paths
CompositeComponents ==
    {[fields |-> <<"price", "pages">>, tagsPaths |-> <<>>],
     [fields |-> <<"price">>, tagsPaths |-> <<"title">>]}

\* the values of the components of a payload: the key of the composite index
CompositeKey(c, pl) ==
    [i \in 1..(Len(c.fields) + Len(c.tagsPaths)) |->
        IF i <= Len(c.fields) THEN pl[c.fields[i]] ELSE pl[c.tagsPaths[i - Len(c.fields)]]]

\* the comparison that looks at the first payload field of the index only
needUpdateCompIndex_FirstField(c, pl, plNew) == pl[c.fields[1]] # plNew[c.fields[1]]

\* needUpdateCompIndexes[field] of doUpsert: a payload field of the index
\* differs between the old and the new payload, or else a tags path does
needUpdateCompIndex(c, pl, plNew) ==
    \/ \E i \in 1..Len(c.fields) : pl[c.fields[i]] # plNew[c.fields[i]]
    \/ \E i \in 1..Len(c.tagsPaths) : pl[c.tagsPaths[i]] # plNew[c.tagsPaths[i]]

\* the key map of the composite index: key -> id set
EmptyCompositeIndex == [k \in {<<a, b>> : a \in BookVals, b \in BookVals} |-> {}]

\* findByPK over the items
BookIds(b, pk) == {id \in 1..Len(b.items) : ~b.items[id].isFree /\ b.items[id].pl.id = pk}

\* createItem: the slot freed last, else a new one
createBook(b) ==
    IF b.free # <<>>
    THEN [b |-> [b EXCEPT !.free = SubSeq(@, 1, Len(@) - 1)], id |-> b.free[Len(b.free)]]
    ELSE [b |-> [b EXCEPT !.items = Append(@, [isFree |-> TRUE, pl |-> <<>>])],
          id |-> Len(b.items) + 1]

\* doUpsert over the payload and the composite index: on an update the
\* index is touched only when a component changed, and then the id leaves
\* the key of the old payload (oldData) before it enters the key of the new
doUpsertBook(b, plNew, id, doUpdate) ==
    LET pl == b.items[id].pl
        need == doUpdate /\ needUpdateCompIndex(b.components, pl, plNew)
        deleted == IF need
                   THEN [b.idx EXCEPT ![CompositeKey(b.components, pl)] = IdSet_Erase(@, id)]
                   ELSE b.idx
    IN [b EXCEPT
          !.items[id] = [isFree |-> FALSE, pl |-> plNew],
          !.idx = IF doUpdate /\ ~need THEN b.idx
                  ELSE [deleted EXCEPT ![CompositeKey(b.components, plNew)] = IdSet_Add(@, id)],
          !.skipped = doUpdate /\ ~need]

\* modifyItem over the items: the early return, findByPK / createItem, doUpsert
modifyBook(b, plNew, mode) ==
    LET found == BookIds(b, plNew.id) # {}
    IN IF NothingToModify(found, mode) THEN [b EXCEPT !.skipped = FALSE]
       ELSE IF found THEN doUpsertBook(b, plNew, MinOf(BookIds(b, plNew.id)), TRUE)
       ELSE doUpsertBook(createBook(b).b, plNew, createBook(b).id, FALSE)

\* doDelete over the items: the id leaves the key of its payload and its
\* slot is freed; items_ and free_ are emptied when every slot is free
deleteBook(b, pk) ==
    IF BookIds(b, pk) = {} THEN [b EXCEPT !.skipped = FALSE]
    ELSE LET id == MinOf(BookIds(b, pk))
             b1 == [b EXCEPT
                      !.items[id] = [isFree |-> TRUE, pl |-> <<>>],
                      !.free = Append(@, id),
                      !.idx[CompositeKey(b.components, b.items[id].pl)] = IdSet_Erase(@, id),
                      !.skipped = FALSE]
         IN IF Len(b1.free) = Len(b1.items) THEN [b1 EXCEPT !.free = <<>>, !.items = <<>>]
            ELSE b1

\* an empty namespace with its composite index
InitBooks ==
    /\ ns = NewNamespace
    /\ obs = <<>>
    /\ seen = EmptyLSN
    /\ lastOp = NoOp
    /\ InitNamespace
    /\ cloners = <<>>
    /\ opt = <<>>
    /\ hashIndex = <<>>
    /\ sysRecords = <<>>
    /\ strHolders = <<>>
    /\ aggregator = <<>>
    /\ commitCnt = <<>>
    /\ nsTags = <<>>
    /\ wire = <<>>
    /\ join = <<>>
    /\ store = <<>>
    /\ \E c \in CompositeComponents :
          books = [items |-> <<>>, free |-> <<>>, idx |-> EmptyCompositeIndex,
                   components |-> c, skipped |-> FALSE]

BookModify ==
    /\ \E pl \in Books, mode \in {ModeInsert, ModeUpdate, ModeUpsert} :
          books' = modifyBook(books, pl, mode)
    /\ UNCHANGED <<ns, obs, seen, lastOp, cowVars, join, store, wire, cloners, opt,
                 hashIndex, sysRecords, strHolders, aggregator, commitCnt, nsTags>>

BookDelete ==
    /\ \E pk \in 1..MaxBooks : books' = deleteBook(books, pk)
    /\ UNCHANGED <<ns, obs, seen, lastOp, cowVars, join, store, wire, cloners, opt,
                 hashIndex, sysRecords, strHolders, aggregator, commitCnt, nsTags>>

NextBooks == BookModify \/ BookDelete

SpecBooks == InitBooks /\ [][NextBooks]_vars

\* C23: after any sequence of item inserts, updates, upserts and deletes,
\* including updates that leave the composite index alone because no
\* component changed, an equality select on the composite index returns
\* exactly the items whose component fields all equal the given tuple
C23_CompositeSelect ==
    books # <<>> =>
        \A key \in DOMAIN books.idx :
            books.idx[key] =
                {id \in 1..Len(books.items) :
                    ~books.items[id].isFree
                    /\ \A i \in 1..Len(key) :
                          CompositeKey(books.components, books.items[id].pl)[i] = key[i]}

\* an update left the composite index alone (its item changed in a field
\* that is no component) while two items share a key of the index
C23_Witness ==
    /\ books # <<>> /\ books.skipped
    /\ \E key \in DOMAIN books.idx : Cardinality(books.idx[key]) = 2

\* ---------------------------------------------------------------- storage
kStorageMagic == 305463004
kStorageVersion == 8
errNotFound == "errNotFound"

\* a storage directory: whether it is there, whether the storage in it can
\* be opened, and the indexes record in it (none, or its magic and version)
NoRecord == [written |-> FALSE, dbMagic |-> 0, dbVer |-> 0]
IndexesRecord(dbMagic, dbVer) == [written |-> TRUE, dbMagic |-> dbMagic, dbVer |-> dbVer]
Storages ==
    {[dir |-> dir, corrupted |-> corrupted, indexes |-> indexes] :
        dir \in BOOLEAN, corrupted \in BOOLEAN,
        indexes \in {NoRecord} \cup
                    {IndexesRecord(m, v) : m \in {kStorageMagic, kStorageMagic + 1},
                                           v \in {kStorageVersion - 1, kStorageVersion,
                                                  kStorageVersion + 1}}}
ValidStorages == {st \in Storages : st.dir \/ (~st.corrupted /\ ~st.indexes.written)}

\* StorageType
StorageTypes == {"LevelDB", "RocksDB"}

\* StorageOpts
StorageOptsSet == [createIfMissing : BOOLEAN, dropOnFileFormatError : BOOLEAN]

\* storage_.Open: a missing directory is made when the options say so
Storage_Open(st, storageType, opts) ==
    IF ~st.dir
    THEN IF opts.createIfMissing THEN [st |-> [st EXCEPT !.dir = TRUE], ok |-> TRUE]
         ELSE [st |-> st, ok |-> FALSE]
    ELSE [st |-> st, ok |-> ~st.corrupted]

\* storage_.Destroy: the directory and all that is in it are removed
Storage_Destroy(st) == [dir |-> FALSE, corrupted |-> FALSE, indexes |-> NoRecord]

\* the format check that looks at the magic only
FormatMatches_MagicOnly(dbMagic, dbVer) == dbMagic = kStorageMagic

\* the format check of loadIndexesFromStorage
FormatMatches(dbMagic, dbVer) == dbMagic = kStorageMagic /\ dbVer = kStorageVersion

\* NamespaceImpl::loadIndexesFromStorage: false on a record of another format
loadIndexesFromStorage(st) ==
    IF st.indexes.written THEN FormatMatches(st.indexes.dbMagic, st.indexes.dbVer) ELSE TRUE

\* the catch block of EnableStorage: a directory this call made is removed
EnableStorageFails(c, st, err) ==
    [c EXCEPT !.st = IF ~c.storageDirExists /\ st.dir THEN Storage_Destroy(st) ELSE st,
              !.err = err, !.valid = FALSE, !.done = TRUE]

\* the loop of NamespaceImpl::EnableStorage, from one pass on
RECURSIVE EnableStorageLoop(_)
EnableStorageLoop(c) ==
    IF ~c.opts.createIfMissing /\ ~c.storageDirExists
    THEN EnableStorageFails(c, c.st, errNotFound)
    ELSE LET opened == Storage_Open(c.st, c.storageType, c.opts)
             c1 == [c EXCEPT !.st = opened.st, !.opens = @ + 1]
             success == opened.ok /\ loadIndexesFromStorage(opened.st)
         IN IF ~success /\ ~c.opts.dropOnFileFormatError
            THEN EnableStorageFails(c1, opened.st, errLogic)
            ELSE IF ~success
            THEN EnableStorageLoop([c1 EXCEPT !.opts.dropOnFileFormatError = FALSE,
                                              !.st = Storage_Destroy(opened.st),
                                              !.destroys = @ + 1])
            ELSE [c1 EXCEPT !.err = errOK, !.valid = TRUE, !.done = TRUE,
                            !.storageOpts = c1.opts]

\* NamespaceImpl::EnableStorage
NamespaceImpl_EnableStorage(st, opts, storageType) ==
    EnableStorageLoop([st |-> st, before |-> st, given |-> opts, opts |-> opts,
                       storageType |-> storageType,
                       storageDirExists |-> st.dir, opens |-> 0, destroys |-> 0,
                       err |-> errOK, valid |-> FALSE, done |-> FALSE, storageOpts |-> <<>>])

\* a storage directory in some state, no namespace opened on it yet
InitStorage ==
    /\ ns = NewNamespace
    /\ obs = <<>>
    /\ seen = EmptyLSN
    /\ lastOp = NoOp
    /\ InitNamespace
    /\ cloners = <<>>
    /\ opt = <<>>
    /\ hashIndex = <<>>
    /\ sysRecords = <<>>
    /\ strHolders = <<>>
    /\ aggregator = <<>>
    /\ commitCnt = <<>>
    /\ nsTags = <<>>
    /\ wire = <<>>
    /\ join = <<>>
    /\ books = <<>>
    /\ \E st \in ValidStorages :
          store = [st |-> st, before |-> st, done |-> FALSE]

EnableStorage ==
    /\ store # <<>> /\ ~store.done
    /\ \E opts \in StorageOptsSet, storageType \in StorageTypes :
          store' = NamespaceImpl_EnableStorage(store.st, opts, storageType)
    /\ UNCHANGED <<ns, obs, seen, lastOp, cowVars, join, books, wire, cloners, opt,
                 hashIndex, sysRecords, strHolders, aggregator, commitCnt, nsTags>>

\* the directory is reopened by a new namespace
ReopenStorage ==
    /\ store # <<>> /\ store.done
    /\ store' = [st |-> store.st, before |-> store.st, done |-> FALSE]
    /\ UNCHANGED <<ns, obs, seen, lastOp, cowVars, join, books, wire, cloners, opt,
                 hashIndex, sysRecords, strHolders, aggregator, commitCnt, nsTags>>

NextStorage == EnableStorage \/ ReopenStorage

SpecStorage == InitStorage /\ [][NextStorage]_vars

\* the call found an indexes record of another magic or version
FormatError(c) ==
    /\ c # <<>> /\ c.done
    /\ c.before.dir /\ ~c.before.corrupted /\ c.before.indexes.written
    /\ (c.before.indexes.dbMagic # kStorageMagic \/ c.before.indexes.dbVer # kStorageVersion)

\* C24: opening a storage whose magic or version does not match aborts the
\* open with an error and leaves the storage alone, unless drop on format
\* error is set: then the storage is destroyed once and the open is retried
\* exactly once, with the option cleared
C24_FormatErrorAbortsOrDrops ==
    FormatError(store) =>
        IF store.given.dropOnFileFormatError
        THEN /\ store.destroys = 1 /\ store.opens = 2
             /\ ~store.opts.dropOnFileFormatError
             /\ ~store.st.indexes.written
             /\ store.valid <=> store.given.createIfMissing
        ELSE /\ store.err = errLogic /\ ~store.valid
             /\ store.destroys = 0 /\ store.opens = 1
             /\ store.st = store.before

\* a storage of version kStorageVersion + 1 was dropped and opened anew
C24_Witness ==
    /\ FormatError(store) /\ store.before.indexes.dbMagic = kStorageMagic
    /\ store.given.dropOnFileFormatError /\ store.valid /\ store.err = errOK
    /\ store.destroys = 1 /\ store.opens = 2

\* ---------------------------------------------------------------------------
\* The binary form of a query: Query::deserialize and Query::Serialize
\* ---------------------------------------------------------------------------

\* the records of a query a received buffer holds, the closing QueryEnd apart
MaxRecords == 3

\* the largest value of an unsigned; unsigned numbers are 31 bits wide here
UINT_MAX == 2147483647
StrictModeNotSet == 0
ModeNoTotal == 0
errParseBin == "errParseBin"
FieldModeSet == "FieldModeSet"
FieldModeDrop == "FieldModeDrop"
FieldModeSetJson == "FieldModeSetJson"

\* one tagged record of the stream: its tag, its string, its number and its
\* variants (each with the expression flag written before it, where the
\* record has one)
WireRecord(type, s, n, vals) == [type |-> type, s |-> s, n |-> n, vals |-> vals]

KeyValueInt == "KeyValueInt"
KeyValueString == "KeyValueString"

Variant(type, v) == [type |-> type, v |-> v]

WireValue(isExpression, v) == [isExpression |-> isExpression, v |-> v]

\* what Query::Query leaves in a query nothing was read into
DefaultQuery ==
    [aggregations |-> <<>>, sortingEntries |-> <<>>, forcedSortOrder |-> <<>>,
     debugLevel |-> 0, strictMode |-> StrictModeNotSet, count |-> UINT_MAX, start |-> 0,
     calcTotal |-> ModeNoTotal, selectFilter |-> <<>>, selectFunctions |-> <<>>,
     explain |-> FALSE, updateFields |-> <<>>]

HasLimit_NonZero(q) == q.count # 0

HasLimit(q) == q.count # UINT_MAX

HasOffset(q) == q.start # 0

\* VariantArray::IsArrayValue
IsArrayValue(values, isArrayValue) == isArrayValue \/ Len(values) > 1

UpdateEntry(column, values, isArray, mode, isExpression) ==
    [column |-> column, values |-> values, isArray |-> isArray, mode |-> mode,
     isExpression |-> isExpression]

\* the variants of a record, and the flag read before the last of them
ValuesOf(t) == [i \in 1..Len(t.vals) |-> t.vals[i].v]

HasExpressions(t) == Len(t.vals) > 0 /\ t.vals[Len(t.vals)].isExpression

Query_Set(q, field, values, isArray, hasExpressions) ==
    [q EXCEPT !.updateFields =
        Append(@, UpdateEntry(field, values, isArray, FieldModeSet, hasExpressions))]

Query_Drop(q, field) ==
    [q EXCEPT !.updateFields = Append(@, UpdateEntry(field, <<>>, FALSE, FieldModeDrop, FALSE))]

\* the outcome of reading or writing: the error thrown, the query, the bytes
Parsed(q) == [err |-> errOK, q |-> q, out |-> <<>>]

Thrown(err) == [err |-> err, q |-> <<>>, out |-> <<>>]

Written(out) == [err |-> errOK, q |-> <<>>, out |-> out]

\* the records of an aggregation that follow its head, up to the first record
\* of another kind: the entry and the position reading goes on from
RECURSIVE readAggregation(_, _, _)
readAggregation(toks, pos, ae) ==
    IF pos > Len(toks) THEN [ae |-> ae, pos |-> pos]
    ELSE IF toks[pos].type = "QueryAggregationLimit"
         THEN readAggregation(toks, pos + 1, [ae EXCEPT !.limit = toks[pos].n])
    ELSE IF toks[pos].type = "QueryAggregationOffset"
         THEN readAggregation(toks, pos + 1, [ae EXCEPT !.offset = toks[pos].n])
    ELSE [ae |-> ae, pos |-> pos]

RECURSIVE deserialize(_, _, _)
deserialize(toks, pos, q) ==
    IF pos > Len(toks) THEN Parsed(q)
    ELSE LET t == toks[pos] IN
      CASE t.type = "QueryAggregation" ->
             LET agg == readAggregation(toks, pos + 1,
                            [type |-> t.n, field |-> t.s, limit |-> UINT_MAX, offset |-> 0])
             IN  deserialize(toks, agg.pos, [q EXCEPT !.aggregations = Append(@, agg.ae)])
        [] t.type = "QuerySortIndex" ->
             LET sorting == IF t.s # "" THEN Append(q.sortingEntries,
                                                    [expression |-> t.s, desc |-> t.n # 0])
                            ELSE q.sortingEntries
             IN  IF Len(t.vals) # 0 /\ Len(sorting) # 1 THEN Thrown(errParams)
                 ELSE deserialize(toks, pos + 1,
                          [q EXCEPT !.sortingEntries = sorting,
                                    !.forcedSortOrder = @ \o ValuesOf(t)])
        [] t.type = "QueryDebugLevel" -> deserialize(toks, pos + 1, [q EXCEPT !.debugLevel = t.n])
        [] t.type = "QueryStrictMode" -> deserialize(toks, pos + 1, [q EXCEPT !.strictMode = t.n])
        [] t.type = "QueryLimit" -> deserialize(toks, pos + 1, [q EXCEPT !.count = t.n])
        [] t.type = "QueryOffset" -> deserialize(toks, pos + 1, [q EXCEPT !.start = t.n])
        [] t.type = "QueryReqTotal" -> deserialize(toks, pos + 1, [q EXCEPT !.calcTotal = t.n])
        [] t.type = "QuerySelectFilter" ->
             deserialize(toks, pos + 1, [q EXCEPT !.selectFilter = Append(@, t.s)])
        [] t.type = "QueryExplain" -> deserialize(toks, pos + 1, [q EXCEPT !.explain = TRUE])
        [] t.type = "QuerySelectFunction" ->
             deserialize(toks, pos + 1, [q EXCEPT !.selectFunctions = Append(@, t.s)])
        [] t.type = "QueryDropField" -> deserialize(toks, pos + 1, Query_Drop(q, t.s))
        [] t.type = "QueryUpdateFieldV2" ->
             deserialize(toks, pos + 1, Query_Set(q, t.s, ValuesOf(t), t.n # 0, HasExpressions(t)))
        [] t.type = "QueryUpdateField" ->
             deserialize(toks, pos + 1,
                         Query_Set(q, t.s, ValuesOf(t), Len(t.vals) > 1, HasExpressions(t)))
        [] t.type = "QueryUpdateObject" ->
             IF \E i \in 1..Len(t.vals) : t.vals[i].v.type # KeyValueString THEN Thrown(errLogic)
             ELSE deserialize(toks, pos + 1,
                      [q EXCEPT !.updateFields =
                          Append(@, UpdateEntry(t.s, ValuesOf(t), t.n = 1, FieldModeSetJson,
                                                HasExpressions(t)))])
        [] t.type = "QueryEnd" -> Parsed(q)
        [] OTHER -> Thrown(errParseBin)

\* Query::Deserialize of a buffer with no sub-query after the root query
Query_Deserialize(b) ==
    LET r == deserialize(b.toks, 1, DefaultQuery) IN
    IF r.err # errOK THEN r ELSE Parsed([ns |-> b.ns] @@ r.q)

RECURSIVE SerializeAggregations(_, _)
SerializeAggregations(aggs, i) ==
    IF i > Len(aggs) THEN <<>>
    ELSE <<WireRecord("QueryAggregation", aggs[i].field, aggs[i].type, <<>>)>>
         \o (IF aggs[i].limit # UINT_MAX
             THEN <<WireRecord("QueryAggregationLimit", "", aggs[i].limit, <<>>)>> ELSE <<>>)
         \o (IF aggs[i].offset # 0
             THEN <<WireRecord("QueryAggregationOffset", "", aggs[i].offset, <<>>)>> ELSE <<>>)
         \o SerializeAggregations(aggs, i + 1)

\* every sorting entry is written with the whole forced sort order
SerializeSorting(q) ==
    [i \in 1..Len(q.sortingEntries) |->
        WireRecord("QuerySortIndex", q.sortingEntries[i].expression,
                   IF q.sortingEntries[i].desc THEN 1 ELSE 0,
                   [k \in 1..Len(q.forcedSortOrder) |-> WireValue(FALSE, q.forcedSortOrder[k])])]

SerializeUpdateField(field) ==
    IF field.mode = FieldModeSet
    THEN WireRecord("QueryUpdateFieldV2", field.column,
                    IF IsArrayValue(field.values, field.isArray) THEN 1 ELSE 0,
                    [k \in 1..Len(field.values) |-> WireValue(field.isExpression, field.values[k])])
    ELSE WireRecord("QueryDropField", field.column, 0, <<>>)

\* the debug level record is written whatever the level
SerializeDebugLevel(q) == <<WireRecord("QueryDebugLevel", "", q.debugLevel, <<>>)>>

Query_Serialize(q) ==
    IF \E i \in 1..Len(q.updateFields) :
          q.updateFields[i].mode \notin {FieldModeSet, FieldModeDrop}
    THEN Thrown(errLogic)
    ELSE Written([ns |-> q.ns, toks |->
           SerializeAggregations(q.aggregations, 1)
           \o SerializeSorting(q)
           \o SerializeDebugLevel(q)
           \o (IF q.strictMode # StrictModeNotSet
               THEN <<WireRecord("QueryStrictMode", "", q.strictMode, <<>>)>> ELSE <<>>)
           \o (IF HasLimit(q) THEN <<WireRecord("QueryLimit", "", q.count, <<>>)>> ELSE <<>>)
           \o (IF HasOffset(q) THEN <<WireRecord("QueryOffset", "", q.start, <<>>)>> ELSE <<>>)
           \o (IF q.calcTotal # ModeNoTotal
               THEN <<WireRecord("QueryReqTotal", "", q.calcTotal, <<>>)>> ELSE <<>>)
           \o [i \in 1..Len(q.selectFilter) |->
                 WireRecord("QuerySelectFilter", q.selectFilter[i], 0, <<>>)]
           \o (IF q.explain THEN <<WireRecord("QueryExplain", "", 0, <<>>)>> ELSE <<>>)
           \o [i \in 1..Len(q.updateFields) |-> SerializeUpdateField(q.updateFields[i])]
           \o <<WireRecord("QueryEnd", "", 0, <<>>)>>])

\* the records a buffer is made of
WireRecords ==
    LET int == Variant(KeyValueInt, "1")
        str == Variant(KeyValueString, "{}")
    IN  { WireRecord("QueryDebugLevel", "", n, <<>>) : n \in {0, 1} }
        \cup { WireRecord("QueryLimit", "", n, <<>>) : n \in {0, 10, UINT_MAX} }
        \cup { WireRecord("QueryStrictMode", "", 1, <<>>),
               WireRecord("QueryOffset", "", 5, <<>>),
               WireRecord("QueryReqTotal", "", 1, <<>>),
               WireRecord("QuerySelectFilter", "title", 0, <<>>),
               WireRecord("QuerySelectFunction", "title = highlight()", 0, <<>>),
               WireRecord("QueryExplain", "", 0, <<>>),
               WireRecord("QueryDropField", "pages", 0, <<>>),
               WireRecord("QueryAggregation", "price", 1, <<>>),
               WireRecord("QueryAggregationLimit", "", 10, <<>>),
               WireRecord("QuerySortIndex", "price", 0, <<>>),
               WireRecord("QuerySortIndex", "price", 1, <<WireValue(FALSE, int)>>),
               WireRecord("QuerySortIndex", "", 0, <<>>),
               WireRecord("QueryUpdateField", "price", 0, <<WireValue(FALSE, int)>>),
               WireRecord("QueryUpdateField", "price", 0,
                          <<WireValue(TRUE, str), WireValue(FALSE, int)>>),
               WireRecord("QueryUpdateFieldV2", "price", 0, <<WireValue(FALSE, int)>>),
               WireRecord("QueryUpdateFieldV2", "price", 1, <<WireValue(FALSE, int)>>),
               WireRecord("QueryUpdateFieldV2", "price", 1,
                          <<WireValue(TRUE, str), WireValue(FALSE, int)>>),
               WireRecord("QueryUpdateObject", "price", 0, <<WireValue(FALSE, str)>>),
               WireRecord("QueryUpdateObject", "price", 0, <<WireValue(FALSE, int)>>),
               WireRecord("QueryUnknown", "", 0, <<>>) }

RECURSIVE WireSeqs(_)
WireSeqs(k) ==
    IF k = 0 THEN {<<>>}
    ELSE WireSeqs(k - 1)
         \cup { Append(toks, t) : toks \in { x \in WireSeqs(k - 1) : Len(x) = k - 1 },
                                  t \in WireRecords }

\* the buffers received: records in any order, closed by QueryEnd or by the
\* end of the buffer
Buffers(maxRecords) ==
    { [ns |-> "books", toks |-> toks \o end] :
        toks \in WireSeqs(maxRecords), end \in {<<>>, <<WireRecord("QueryEnd", "", 0, <<>>)>>} }

\* a buffer has arrived and nothing has been read from it
InitWire ==
    /\ ns = NewNamespace
    /\ obs = <<>>
    /\ seen = EmptyLSN
    /\ lastOp = NoOp
    /\ InitNamespace
    /\ cloners = <<>>
    /\ opt = <<>>
    /\ hashIndex = <<>>
    /\ sysRecords = <<>>
    /\ strHolders = <<>>
    /\ aggregator = <<>>
    /\ commitCnt = <<>>
    /\ nsTags = <<>>
    /\ join = <<>>
    /\ books = <<>>
    /\ store = <<>>
    /\ \E b \in Buffers(MaxRecords) :
          wire = [first |-> b, in |-> b, stage |-> "received", err |-> errOK, q |-> <<>>,
                  out |-> <<>>, round |-> 1]

\* the receiver reads the query from the buffer
DeserializeQuery ==
    /\ wire # <<>> /\ wire.stage = "received"
    /\ LET r == Query_Deserialize(wire.in) IN
       wire' = [wire EXCEPT !.stage = IF r.err = errOK THEN "parsed" ELSE "rejected",
                            !.err = r.err, !.q = r.q]
    /\ UNCHANGED <<ns, obs, seen, lastOp, cowVars, join, books, store, cloners, opt,
                 hashIndex, sysRecords, strHolders, aggregator, commitCnt, nsTags>>

\* it writes the query it has read
SerializeQuery ==
    /\ wire # <<>> /\ wire.stage = "parsed"
    /\ LET r == Query_Serialize(wire.q) IN
       wire' = [wire EXCEPT !.stage = IF r.err = errOK THEN "written" ELSE "failed",
                            !.err = r.err, !.out = r.out]
    /\ UNCHANGED <<ns, obs, seen, lastOp, cowVars, join, books, store, cloners, opt,
                 hashIndex, sysRecords, strHolders, aggregator, commitCnt, nsTags>>

\* the bytes written are what the next receiver gets
ForwardQuery ==
    /\ wire # <<>> /\ wire.stage = "written" /\ wire.round = 1
    /\ wire' = [wire EXCEPT !.in = wire.out, !.stage = "received", !.q = <<>>, !.out = <<>>,
                            !.round = 2]
    /\ UNCHANGED <<ns, obs, seen, lastOp, cowVars, join, books, store, cloners, opt,
                 hashIndex, sysRecords, strHolders, aggregator, commitCnt, nsTags>>

NextWire == DeserializeQuery \/ SerializeQuery \/ ForwardQuery

SpecWire == InitWire /\ [][NextWire]_vars

LeftJoin == "LeftJoin"
OrInnerJoin == "OrInnerJoin"
Merge == "Merge"
CondGe == "CondGe"
ModeAccurateTotal == 1
ModeCachedTotal == 2
StrictModeNames == 2
AggSum == "AggSum"
AggFacet == "AggFacet"

\* Query(namespace, start, count, calcTotal)
NewQuery(namespace, start, count, calcTotal) ==
    [ns |-> namespace, entries |-> <<>>, joinQueries |-> <<>>, mergeQueries |-> <<>>]
    @@ [DefaultQuery EXCEPT !.start = start, !.count = count, !.calcTotal = calcTotal]

QueryEntry(op, index, condition, values) ==
    [kind |-> "QueryEntry", op |-> op, index |-> index, condition |-> condition,
     values |-> values]

\* joinIndex is the place of the joined query in joinQueries_ (counted from 1 here)
JoinQueryEntry(op, joinIndex) == [kind |-> "JoinQueryEntry", op |-> op, joinIndex |-> joinIndex]

JoinedQuery(joinType, q) == [joinType |-> joinType, joinEntries |-> <<>>] @@ q

Query_Where(q, index, condition, values) ==
    [q EXCEPT !.entries = Append(@, QueryEntry(OpAnd, index, condition, values))]

Query_Join(q, joinType, index, joinIndex, cond, op, qr) ==
    LET jq == [JoinedQuery(joinType, qr) EXCEPT
                  !.joinEntries = <<QueryJoinEntry(op, cond, index, joinIndex, FALSE)>>]
        joined == Append(q.joinQueries, jq)
    IN  [q EXCEPT !.joinQueries = joined,
                  !.entries = IF joinType # LeftJoin
                              THEN Append(@, JoinQueryEntry(IF joinType = InnerJoin THEN OpAnd
                                                            ELSE OpOr, Len(joined)))
                              ELSE @]

RECURSIVE Query_Equal(_, _)
\* JoinedQuery::operator==
JoinedQuery_Equal(a, b) ==
    /\ a.joinEntries = b.joinEntries
    /\ a.joinType = b.joinType
    /\ Query_Equal(a, b)

\* Query::operator==
Query_Equal(a, b) ==
    /\ a.entries = b.entries
    /\ a.aggregations = b.aggregations
    /\ a.ns = b.ns
    /\ a.sortingEntries = b.sortingEntries
    /\ a.calcTotal = b.calcTotal
    /\ a.start = b.start
    /\ a.count = b.count
    /\ a.debugLevel = b.debugLevel
    /\ a.strictMode = b.strictMode
    /\ a.forcedSortOrder = b.forcedSortOrder
    /\ a.selectFilter = b.selectFilter
    /\ a.selectFunctions = b.selectFunctions
    /\ Len(a.joinQueries) = Len(b.joinQueries)
    /\ \A i \in 1..Len(a.joinQueries) : JoinedQuery_Equal(a.joinQueries[i], b.joinQueries[i])
    /\ Len(a.mergeQueries) = Len(b.mergeQueries)
    /\ \A i \in 1..Len(a.mergeQueries) : JoinedQuery_Equal(a.mergeQueries[i], b.mergeQueries[i])
    /\ a.updateFields = b.updateFields

join_types(joinType) ==
    CASE joinType = InnerJoin -> "inner"
      [] joinType = LeftJoin -> "left"
      [] joinType = OrInnerJoin -> "orinner"

cond_map(cond) ==
    CASE cond = CondEq -> "eq"
      [] cond = CondGe -> "ge"
      [] cond = CondSet -> "set"

op_map(op) ==
    CASE op = OpOr -> "or"
      [] op = OpAnd -> "and"

\* "cached" is written as "enabled"
reqtotal_values_NoCached(mode) ==
    CASE mode = ModeNoTotal -> "disabled"
      [] mode = ModeAccurateTotal -> "enabled"
      [] mode = ModeCachedTotal -> "enabled"

reqtotal_values(mode) ==
    CASE mode = ModeNoTotal -> "disabled"
      [] mode = ModeAccurateTotal -> "enabled"
      [] mode = ModeCachedTotal -> "cached"

strictModeToString(mode) ==
    CASE mode = StrictModeNotSet -> ""
      [] mode = StrictModeNames -> "names"

aggTypeToStr(type) ==
    CASE type = AggSum -> "sum"
      [] type = AggFacet -> "facet"

\* a JSON value that is a scalar, and one that is an array
JsonScalar(v) == [scalar |-> v]

JsonArray(vs) == [array |-> vs]

encodeSorting(sortingEntries) ==
    [i \in 1..Len(sortingEntries) |->
        [field |-> sortingEntries[i].expression, desc |-> sortingEntries[i].desc]]

encodeJoinEntry(joinEntry) ==
    [left_field |-> joinEntry.index, right_field |-> joinEntry.joinIndex,
     cond |-> cond_map(joinEntry.condition), op |-> op_map(joinEntry.op)]

encodeFilter(qentry) ==
    [cond |-> cond_map(qentry.condition), field |-> qentry.index]
    @@ (IF Len(qentry.values) = 0 THEN <<>>
        ELSE IF Len(qentry.values) > 1 THEN [value |-> JsonArray(qentry.values)]
        ELSE [value |-> JsonScalar(qentry.values[1])])

RECURSIVE encodeFilters(_)
encodeSingleJoinQuery(joinQuery) ==
    [join_query |->
        [type |-> join_types(joinQuery.joinType), namespace |-> joinQuery.ns,
         limit |-> joinQuery.count, offset |-> joinQuery.start,
         filters |-> encodeFilters(joinQuery),
         sort |-> encodeSorting(joinQuery.sortingEntries),
         on |-> [i \in 1..Len(joinQuery.joinEntries) |->
                    encodeJoinEntry(joinQuery.joinEntries[i])],
         select_filter |-> joinQuery.selectFilter]]

\* QueryEntries::toDsl: a node per entry, the joined query in place of its entry
QueryEntries_toDsl(query) ==
    [i \in 1..Len(query.entries) |->
        [op |-> op_map(query.entries[i].op)]
        @@ (IF query.entries[i].kind = "JoinQueryEntry"
            THEN encodeSingleJoinQuery(query.joinQueries[query.entries[i].joinIndex])
            ELSE encodeFilter(query.entries[i]))]

\* the left joins, after the entries
encodeJoins(query) ==
    LET left == SelectSeq(query.joinQueries, LAMBDA jq : jq.joinType = LeftJoin)
    IN  [i \in 1..Len(left) |-> encodeSingleJoinQuery(left[i])]

encodeFilters(query) == QueryEntries_toDsl(query) \o encodeJoins(query)

encodeAggregationFunctions(query) ==
    [i \in 1..Len(query.aggregations) |->
        LET entry == query.aggregations[i] IN
        [type |-> aggTypeToStr(entry.type), sort |-> encodeSorting(entry.sortingEntries),
         fields |-> entry.fields]
        @@ (IF entry.limit # UINT_MAX THEN [limit |-> entry.limit] ELSE <<>>)
        @@ (IF entry.offset # 0 THEN [offset |-> entry.offset] ELSE <<>>)]

\* dsl::toDsl of a select query
RECURSIVE toDsl(_)
toDsl(query) ==
    [namespace |-> query.ns, limit |-> query.count, offset |-> query.start,
     req_total |-> reqtotal_values(query.calcTotal), explain |-> query.explain,
     type |-> "select", select_with_rank |-> FALSE,
     select_filter |-> query.selectFilter, select_functions |-> query.selectFunctions,
     sort |-> encodeSorting(query.sortingEntries),
     filters |-> encodeFilters(query),
     merge_queries |-> [i \in 1..Len(query.mergeQueries) |-> toDsl(query.mergeQueries[i])],
     aggregations |-> encodeAggregationFunctions(query)]
    @@ (IF strictModeToString(query.strictMode) # ""
        THEN [strict_mode |-> strictModeToString(query.strictMode)] ELSE <<>>)

\* ---- the parser: each key of the JSON is read back into its member ----

parseJoinType(str) ==
    CASE str = "inner" -> InnerJoin
      [] str = "left" -> LeftJoin
      [] str = "orinner" -> OrInnerJoin

parseCond(str) ==
    CASE str = "eq" -> CondEq
      [] str = "ge" -> CondGe
      [] str = "set" -> CondSet

parseOp(str) ==
    CASE str = "or" -> OpOr
      [] str = "and" -> OpAnd

parseReqTotal(str) ==
    CASE str = "disabled" -> ModeNoTotal
      [] str = "enabled" -> ModeAccurateTotal
      [] str = "cached" -> ModeCachedTotal

parseStrictMode(str) ==
    CASE str = "names" -> StrictModeNames
      [] OTHER -> StrictModeNotSet

parseAggType(str) ==
    CASE str = "sum" -> AggSum
      [] str = "facet" -> AggFacet

parseSort(sort) ==
    [i \in 1..Len(sort) |-> [expression |-> sort[i].field, desc |-> sort[i].desc]]

parseValues(node) ==
    IF "value" \notin DOMAIN node THEN <<>>
    ELSE IF "array" \in DOMAIN node.value THEN node.value.array
    ELSE <<node.value.scalar>>

parseAggregations(aggregations) ==
    [i \in 1..Len(aggregations) |->
        LET node == aggregations[i] IN
        [type |-> parseAggType(node.type), fields |-> node.fields,
         sortingEntries |-> parseSort(node.sort),
         limit |-> IF "limit" \in DOMAIN node THEN node.limit ELSE UINT_MAX,
         offset |-> IF "offset" \in DOMAIN node THEN node.offset ELSE 0]]

RECURSIVE parseFilters(_, _, _)
\* the joined query of a "join_query" node
parseSingleJoinQuery(node) ==
    LET jq == parseFilters(node.filters, 1, NewQuery(node.namespace, node.offset, node.limit,
                                                     ModeNoTotal))
    IN  [JoinedQuery(parseJoinType(node.type),
                     [jq EXCEPT !.sortingEntries = parseSort(node.sort),
                                !.selectFilter = node.select_filter])
         EXCEPT !.joinEntries =
            [i \in 1..Len(node.on) |->
                QueryJoinEntry(parseOp(node.on[i].op), parseCond(node.on[i].cond),
                               node.on[i].left_field, node.on[i].right_field, FALSE)]]

\* the nodes of "filters", in their order: a condition is appended to the
\* entries, a joined query to joinQueries_ (with its entry unless it is a left
\* join)
parseFilters(filters, i, q) ==
    IF i > Len(filters) THEN q
    ELSE LET node == filters[i] IN
         IF "join_query" \in DOMAIN node
         THEN LET jq == parseSingleJoinQuery(node.join_query)
                  joined == Append(q.joinQueries, jq)
              IN  parseFilters(filters, i + 1,
                     [q EXCEPT !.joinQueries = joined,
                               !.entries = IF jq.joinType # LeftJoin
                                           THEN Append(@, JoinQueryEntry(
                                                   IF jq.joinType = InnerJoin THEN OpAnd
                                                   ELSE OpOr, Len(joined)))
                                           ELSE @])
         ELSE parseFilters(filters, i + 1,
                 [q EXCEPT !.entries = Append(@, QueryEntry(parseOp(node.op), node.field,
                                                            parseCond(node.cond),
                                                            parseValues(node)))])

\* dsl::Parse of the JSON of a select query
RECURSIVE dsl_Parse(_)
dsl_Parse(dsl) ==
    LET q == parseFilters(dsl.filters, 1,
                          NewQuery(dsl.namespace, dsl.offset, dsl.limit,
                                   parseReqTotal(dsl.req_total)))
    IN  [q EXCEPT !.explain = dsl.explain,
                  !.strictMode = IF "strict_mode" \in DOMAIN dsl
                                 THEN parseStrictMode(dsl.strict_mode) ELSE StrictModeNotSet,
                  !.selectFilter = dsl.select_filter,
                  !.selectFunctions = dsl.select_functions,
                  !.sortingEntries = parseSort(dsl.sort),
                  !.aggregations = parseAggregations(dsl.aggregations),
                  !.mergeQueries = [i \in 1..Len(dsl.merge_queries) |->
                                       JoinedQuery(Merge, dsl_Parse(dsl.merge_queries[i]))]]

\* ---- the queries of the round trip ----

DslSortings ==
    { [sortingEntries |-> <<>>, forcedSortOrder |-> <<>>],
      [sortingEntries |-> <<[expression |-> "price", desc |-> TRUE]>>, forcedSortOrder |-> <<>>],
      [sortingEntries |-> <<[expression |-> "price", desc |-> TRUE]>>,
       forcedSortOrder |-> <<500, 100>>] }

DslAggregations ==
    { <<>>,
      <<[type |-> AggSum, fields |-> <<"pages">>, sortingEntries |-> <<>>,
         limit |-> UINT_MAX, offset |-> 0]>>,
      <<[type |-> AggFacet, fields |-> <<"title", "pages">>,
         sortingEntries |-> <<[expression |-> "title", desc |-> TRUE]>>,
         limit |-> 100, offset |-> 10]>> }

DslConditions == { <<>>, <<CondGe, <<500>>>>, <<CondSet, <<100, 500>>>> }

\* the joins of the query, in the order of the calls
DslJoins ==
    { <<>>, <<LeftJoin>>, <<InnerJoin>>, <<OrInnerJoin, LeftJoin>>, <<LeftJoin, InnerJoin>> }

QueryAuthors == [NewQuery("authors", 0, UINT_MAX, ModeNoTotal) EXCEPT !.selectFilter = <<"age">>]

QueryGenres == Query_Where(NewQuery("genres", 0, 10, ModeNoTotal), "genreid", CondGe, <<1>>)

RECURSIVE WithJoins(_, _, _)
WithJoins(q, joins, i) ==
    IF i > Len(joins) THEN q
    ELSE WithJoins(IF joins[i] = LeftJoin
                   THEN Query_Join(q, LeftJoin, "authorid_fk", "authorid", CondEq, OpAnd,
                                   QueryAuthors)
                   ELSE Query_Join(q, joins[i], "genreid_fk", "genreid", CondEq, OpAnd,
                                   QueryGenres),
                   joins, i + 1)

DslQueries ==
    { LET q0 == NewQuery("books", 5, count, calcTotal)
          q1 == IF cond = <<>> THEN q0 ELSE Query_Where(q0, "price", cond[1], cond[2])
          q2 == WithJoins(q1, joins, 1)
      IN  [q2 EXCEPT !.debugLevel = debugLevel, !.strictMode = strictMode,
                     !.selectFilter = selectFilter, !.selectFunctions = selectFunctions,
                     !.sortingEntries = sorting.sortingEntries,
                     !.forcedSortOrder = sorting.forcedSortOrder,
                     !.aggregations = aggregations,
                     !.mergeQueries =
                        IF merged
                        THEN <<JoinedQuery(Merge, Query_Where(NewQuery("books", 10, 100,
                                                                       ModeNoTotal),
                                                              "pages", CondGe, <<250>>))>>
                        ELSE <<>>] :
        count \in {10, UINT_MAX},
        calcTotal \in {ModeNoTotal, ModeAccurateTotal, ModeCachedTotal},
        cond \in DslConditions, joins \in DslJoins,
        debugLevel \in {0, 1}, strictMode \in {StrictModeNotSet, StrictModeNames},
        selectFilter \in {<<>>, <<"price", "title">>},
        selectFunctions \in {<<>>, <<"f1()">>},
        sorting \in DslSortings, aggregations \in DslAggregations, merged \in BOOLEAN }

\* a query has been built and nothing has been generated from it
InitDsl ==
    /\ ns = NewNamespace
    /\ obs = <<>>
    /\ seen = EmptyLSN
    /\ lastOp = NoOp
    /\ InitNamespace
    /\ cloners = <<>>
    /\ opt = <<>>
    /\ hashIndex = <<>>
    /\ sysRecords = <<>>
    /\ strHolders = <<>>
    /\ aggregator = <<>>
    /\ commitCnt = <<>>
    /\ nsTags = <<>>
    /\ join = <<>>
    /\ books = <<>>
    /\ store = <<>>
    /\ \E q \in DslQueries :
          wire = [q |-> q, stage |-> "query", dsl |-> <<>>, parsed |-> <<>>]

\* Query::GetJSON
GetJSON ==
    /\ wire # <<>> /\ wire.stage = "query"
    /\ wire' = [wire EXCEPT !.dsl = toDsl(wire.q), !.stage = "dsl"]
    /\ UNCHANGED <<ns, obs, seen, lastOp, cowVars, join, books, store, cloners, opt,
                 hashIndex, sysRecords, strHolders, aggregator, commitCnt, nsTags>>

\* Query::FromJSON into a new query
FromJSON ==
    /\ wire # <<>> /\ wire.stage = "dsl"
    /\ wire' = [wire EXCEPT !.parsed = dsl_Parse(wire.dsl), !.stage = "parsed"]
    /\ UNCHANGED <<ns, obs, seen, lastOp, cowVars, join, books, store, cloners, opt,
                 hashIndex, sysRecords, strHolders, aggregator, commitCnt, nsTags>>

NextDsl == GetJSON \/ FromJSON

SpecDsl == InitDsl /\ [][NextDsl]_vars

\* what the DSL keeps of a query: no debug level, no forced sort order, and
\* the joined queries in the order of its nodes (no left join before another
\* join)
DslKeeps(q) ==
    /\ q.debugLevel = 0
    /\ q.forcedSortOrder = <<>>
    /\ \A i, j \in 1..Len(q.joinQueries) :
          i < j => ~(q.joinQueries[i].joinType = LeftJoin /\ q.joinQueries[j].joinType # LeftJoin)

MaxCommits == 2

Committers == {"c1", "c2"}

\* a transaction of k steps
TxOfSize(k) == [i \in 1..k |-> "step"]

\* a NamespaceImpl behind the Namespace: the threads holding its read lock,
\* the capacity of its items, and what it is to the Namespace
Instance(itemsCapacity, role) ==
    [readOnly |-> FALSE, readers |-> {}, itemsCapacity |-> itemsCapacity, role |-> role,
     flushes |-> 0]

\* clonerMtx_ can be taken
MutexFree_Always(mtx) == TRUE

MutexFree(mtx) == mtx = "none"

InitCloners ==
    /\ ns = NewNamespace
    /\ obs = <<>>
    /\ seen = EmptyLSN
    /\ lastOp = NoOp
    /\ InitNamespace
    /\ join = <<>>
    /\ books = <<>>
    /\ store = <<>>
    /\ wire = <<>>
    /\ opt = <<>>
    /\ hashIndex = <<>>
    /\ sysRecords = <<>>
    /\ strHolders = <<>>
    /\ aggregator = <<>>
    /\ commitCnt = <<>>
    /\ nsTags = <<>>
    /\ cloners = [pc |-> [t \in Committers |-> "idle"],
                  ptr |-> [t \in Committers |-> 1],
                  tx |-> [t \in Committers |-> <<>>],
                  res |-> [t \in Committers |-> errOK],
                  left |-> [t \in Committers |-> MaxCommits],
                  inst |-> <<Instance(0, "main")>>,
                  mainNs |-> 1, nsCopy |-> 0, hasCopy |-> FALSE, clonerMtx |-> "none"]

\* ns = atomicLoadMainNs(); needNamespaceCopy(ns, tx)
BeginCowCommit ==
    /\ cloners # <<>>
    /\ \E t \in Committers, k \in 1..MaxTxSteps, cfg \in CopyConfigs :
        /\ cloners.pc[t] = "idle" /\ cloners.left[t] > 0
        /\ cloners' = [cloners EXCEPT
              !.ptr[t] = cloners.mainNs, !.tx[t] = TxOfSize(k), !.res[t] = "pending",
              !.left[t] = @ - 1,
              !.pc[t] = IF needNamespaceCopy(cloners.inst[cloners.mainNs], TxOfSize(k), cfg)
                        THEN "lock" ELSE "inplace"]
    /\ UNCHANGED <<ns, obs, seen, lastOp, cowVars, join, books, store, wire, opt,
                 hashIndex, sysRecords, strHolders, aggregator, commitCnt, nsTags>>

\* lck(clonerMtx_); ns = ns_; needNamespaceCopy(ns, tx); hasCopy_.store(true).
\* When the second test fails the lock is dropped and the commit goes in place
LockClonerMtx ==
    /\ cloners # <<>>
    /\ \E t \in Committers, cfg \in CopyConfigs :
        /\ cloners.pc[t] = "lock"
        /\ MutexFree(cloners.clonerMtx)
        /\ cloners' =
              IF needNamespaceCopy(cloners.inst[cloners.mainNs], cloners.tx[t], cfg)
              THEN [cloners EXCEPT !.clonerMtx = t, !.ptr[t] = cloners.mainNs,
                                   !.hasCopy = TRUE, !.pc[t] = "rlock"]
              ELSE [cloners EXCEPT !.ptr[t] = cloners.mainNs, !.pc[t] = "inplace"]
    /\ UNCHANGED <<ns, obs, seen, lastOp, cowVars, join, books, store, wire, opt,
                 hashIndex, sysRecords, strHolders, aggregator, commitCnt, nsTags>>

\* rlck = ns->rLock(ctx); storageLock = ns->storage_.FullLock();
\* nsCopy_.reset(new NamespaceImpl(*ns, storageLock))
CloneSource ==
    /\ cloners # <<>>
    /\ \E t \in Committers :
        /\ cloners.pc[t] = "rlock"
        /\ ~cloners.inst[cloners.ptr[t]].readOnly
        /\ cloners' = [cloners EXCEPT
              !.inst = Append([@ EXCEPT ![cloners.ptr[t]].readers = @ \cup {t}],
                              Instance(cloners.inst[cloners.ptr[t]].itemsCapacity, "copy")),
              !.nsCopy = Len(cloners.inst) + 1,
              !.pc[t] = "apply"]
    /\ UNCHANGED <<ns, obs, seen, lastOp, cowVars, join, books, store, wire, opt,
                 hashIndex, sysRecords, strHolders, aggregator, commitCnt, nsTags>>

\* nsCopy_->CommitTransaction(tx, result, NsContext(ctx).NoLock()) returns, or
\* throws: catch (...) { nsCopy_.reset(); hasCopy_.store(false); throw; } and
\* rlck and lck are released on the way out
ApplyOnClone ==
    /\ cloners # <<>>
    /\ \E t \in Committers, ok \in BOOLEAN :
        /\ cloners.pc[t] = "apply"
        /\ cloners' =
              IF ok
              THEN [cloners EXCEPT
                      !.inst[cloners.nsCopy].itemsCapacity = @ + Len(cloners.tx[t]),
                      !.pc[t] = "swap"]
              ELSE [cloners EXCEPT
                      !.inst[cloners.nsCopy].role = "destroyed",
                      !.inst[cloners.ptr[t]].readers = @ \ {t},
                      !.nsCopy = 0, !.hasCopy = FALSE,
                      !.clonerMtx = IF @ = t THEN "none" ELSE @,
                      !.res[t] = errLogic, !.tx[t] = <<>>, !.pc[t] = "idle"]
    /\ UNCHANGED <<ns, obs, seen, lastOp, cowVars, join, books, store, wire, opt,
                 hashIndex, sysRecords, strHolders, aggregator, commitCnt, nsTags>>

\* ns->markReadOnly(); atomicStoreMainNs(nsCopy_.release());
\* hasCopy_.store(false); the end of the try block releases rlck
SwapMainNs ==
    /\ cloners # <<>>
    /\ \E t \in Committers :
        /\ cloners.pc[t] = "swap"
        /\ cloners' = [cloners EXCEPT
              !.inst = [i \in 1..Len(@) |->
                          IF i = cloners.ptr[t]
                          THEN [@[i] EXCEPT !.readOnly = TRUE, !.readers = @ \ {t},
                                            !.role = "replaced"]
                          ELSE IF i = cloners.nsCopy THEN [@[i] EXCEPT !.role = "main"]
                          ELSE @[i]],
              !.mainNs = cloners.nsCopy, !.nsCopy = 0, !.hasCopy = FALSE,
              !.pc[t] = "unlock"]
    /\ UNCHANGED <<ns, obs, seen, lastOp, cowVars, join, books, store, wire, opt,
                 hashIndex, sysRecords, strHolders, aggregator, commitCnt, nsTags>>

\* ns = ns_; lck.unlock()
UnlockClonerMtx ==
    /\ cloners # <<>>
    /\ \E t \in Committers :
        /\ cloners.pc[t] = "unlock"
        /\ cloners' = [cloners EXCEPT !.ptr[t] = cloners.mainNs,
                                      !.clonerMtx = IF @ = t THEN "none" ELSE @,
                                      !.pc[t] = "flush"]
    /\ UNCHANGED <<ns, obs, seen, lastOp, cowVars, join, books, store, wire, opt,
                 hashIndex, sysRecords, strHolders, aggregator, commitCnt, nsTags>>

\* ns->storage_.TryForceFlush(); return
FlushStorage ==
    /\ cloners # <<>>
    /\ \E t \in Committers :
        /\ cloners.pc[t] = "flush"
        /\ cloners' = [cloners EXCEPT !.inst[cloners.ptr[t]].flushes = @ + 1,
                                      !.res[t] = errOK, !.tx[t] = <<>>, !.pc[t] = "idle"]
    /\ UNCHANGED <<ns, obs, seen, lastOp, cowVars, join, books, store, wire, opt,
                 hashIndex, sysRecords, strHolders, aggregator, commitCnt, nsTags>>

\* handleInvalidation(NamespaceImpl::CommitTransaction): the commit in place,
\* under the write lock of the main namespace
CommitOnMainNs ==
    /\ cloners # <<>>
    /\ \E t \in Committers, ok \in BOOLEAN :
        /\ cloners.pc[t] = "inplace"
        /\ cloners.inst[cloners.mainNs].readers = {}
        /\ ~cloners.inst[cloners.mainNs].readOnly
        /\ cloners' = [cloners EXCEPT
              !.ptr[t] = cloners.mainNs,
              !.inst[cloners.mainNs].itemsCapacity =
                  IF ok THEN @ + Len(cloners.tx[t]) ELSE @,
              !.res[t] = IF ok THEN errOK ELSE errLogic,
              !.tx[t] = <<>>, !.pc[t] = "idle"]
    /\ UNCHANGED <<ns, obs, seen, lastOp, cowVars, join, books, store, wire, opt,
                 hashIndex, sysRecords, strHolders, aggregator, commitCnt, nsTags>>

NextCloners ==
    \/ BeginCowCommit \/ LockClonerMtx \/ CloneSource \/ ApplyOnClone
    \/ SwapMainNs \/ UnlockClonerMtx \/ FlushStorage \/ CommitOnMainNs

SpecCloners == InitCloners /\ [][NextCloners]_vars

\* the threads whose commit has started cloning and has neither swapped nor
\* failed yet, and those that have swapped and not yet flushed
Cloning == { t \in Committers : cloners.pc[t] \in {"rlock", "apply", "swap"} }

Flushing == { t \in Committers : cloners.pc[t] \in {"unlock", "flush"} }

Clones == { i \in 1..Len(cloners.inst) : cloners.inst[i].role = "copy" }

\* C27 (as stated): a commit that has started cloning swaps and flushes, or
\* fails, before another commit starts cloning, and there is at most one clone
C27_OneCowCommitUntilFlushed ==
    cloners # <<>> =>
        /\ Cardinality(Cloning \cup Flushing) <= 1
        /\ Cardinality(Clones) <= 1

\* C27 (amended): a commit that has started cloning swaps, or fails, before
\* another commit starts cloning, it holds clonerMtx_ all along, and there is
\* at most one clone; its flush comes after the unlock and is not covered
C27_OneCowCommitUntilSwapped ==
    cloners # <<>> =>
        /\ Cardinality(Cloning) <= 1
        /\ \A t \in Cloning : cloners.clonerMtx = t
        /\ Cardinality({ t \in Committers : cloners.pc[t] \in {"rlock", "apply", "swap", "unlock"} }) <= 1
        /\ cloners.hasCopy => cloners.clonerMtx # "none"
        /\ Cardinality(Clones) <= 1
        /\ Clones = IF cloners.nsCopy = 0 THEN {} ELSE {cloners.nsCopy}

\* a commit waits for clonerMtx_ while the clone of another commit exists
C27_Witness ==
    /\ cloners # <<>>
    /\ \E t, u \in Committers :
          /\ cloners.pc[t] = "lock"
          /\ cloners.pc[u] = "apply" /\ cloners.nsCopy # 0 /\ cloners.clonerMtx = u

\* ------------------------------------------- transactions and observers
\* the records of type that the observers got during the call, by position
Received(type) == { i \in 1..Len(obs) : obs[i].type = type }

\* C28: a transaction whose commit fails delivers no InitTransaction record
\* to the observers that is not followed by the CommitTransaction record of
\* the same transaction
C28_InitIsFollowedByCommit ==
    (lastOp # NoOp /\ lastOp.op = "CommitTransaction" /\ lastOp.err # errOK) =>
        \A i \in Received("WalInitTransaction") :
            \E j \in Received("WalCommitTransaction") : j > i /\ obs[j].tx = obs[i].tx

\* C29: an in-place commit one of whose steps fails leaves none of the
\* effects of its earlier steps: the items and the indexes are those from
\* before the commit, and the WAL holds no record of a step (only the
\* InitTransaction record was added)
C29_FailedCommitLeavesNothing ==
    (lastOp # NoOp /\ lastOp.op = "CommitTransaction" /\ lastOp.err # errOK
        /\ lastOp.err # errNamespaceInvalidated) =>
        /\ Data(ns) = Data(lastOp.pre)
        /\ ns.itemsCount = lastOp.pre.itemsCount
        /\ ns.lsnCounter <= lastOp.pre.lsnCounter + 1

Rows(n) == <<n.items, n.free>>

NoWriter == opt # <<>> /\ \A w \in Writers : opt.wpc[w] = "idle"

HashWrite == hashIndex # <<>> /\ hashIndex.last.op \in {"Upsert", "Delete"}

\* C33 (as stated): any upsert or delete applied to the index leaves its
\* IdSet cache empty
C33_WriteClearsCache ==
    HashWrite => hashIndex.cache.entries = {}

\* the id sets of the index
IdSets(h) == <<h.idx_map, h.empty_ids>>

\* C33 (amended): an upsert or delete that changes the id sets of the index
\* leaves its IdSet cache empty, and one that does not clear the cache has
\* left the id sets as they were
C33_ChangeClearsCache ==
    HashWrite =>
        /\ IdSets(hashIndex) # IdSets(hashIndex.last.pre) => hashIndex.cache.entries = {}
        /\ hashIndex.cache # NoCache =>
              (IdSets(hashIndex) = IdSets(hashIndex.last.pre)
                  /\ hashIndex.cache = hashIndex.last.pre.cache)

\* a write that changed the id sets found ids in the cache and cleared it
C33_Witness ==
    /\ HashWrite
    /\ IdSets(hashIndex) # IdSets(hashIndex.last.pre)
    /\ \E e \in hashIndex.last.pre.cache.entries : e.hasIds
    /\ hashIndex.cache.entries = {}

\* ------------------------------------------------- comparator fallback
\* the call that has just returned was a select, the comparator not forced
HashSelected ==
    hashIndex # <<>> /\ hashIndex.last.op = "Select" /\ ~hashIndex.last.opts.forceComparator

\* the ids under the keys of the select, counted per key
Matched == IdsCount(SelectorFound(hashIndex.last.pre, hashIndex.last.keys))

\* the keys of the select that have ids
MatchedKeys == Len(SelectorFound(hashIndex.last.pre, hashIndex.last.keys))

\* the select found the ids of its keys in the cache
ServedFromCache ==
    /\ ~hashIndex.last.opts.distinct /\ ~hashIndex.last.opts.disableIdSetCache
    /\ Len(hashIndex.last.keys) > 1
    /\ \E e \in hashIndex.last.pre.cache.entries : e.keys = hashIndex.last.keys /\ e.hasIds

NothingModified ==
    /\ lastOp # NoOp /\ lastOp.op \in {"Insert", "Update"} /\ lastOp.err = errOK
    /\ (lastOp.op = "Insert") = findByPK(lastOp.pre, lastOp.item.pk).exists

StoredRecords == {sysRecords.slots[i] : i \in {j \in SysSlots : sysRecords.slots[j].has}}

\* C37: after any sequence of writes of the system record of a tag, the load
\* returns the content of the most recent write, which is the record with the
\* highest version among the 8 slots of the ring, and the next write uses a
\* version above every stored version
C37_LoadReturnsLatest ==
    /\ (sysRecords.loaded /\ sysRecords.last # NoContent)
          => /\ sysRecords.content = sysRecords.last
             /\ \E r \in StoredRecords :
                   /\ r.content = sysRecords.content
                   /\ \A q \in StoredRecords : q.version <= r.version
    /\ sysRecords.opened => \A r \in StoredRecords : sysRecords.version > r.version

\* a load after the ring has wrapped around: every slot holds a record, the
\* latest of them in a slot below that of an older one with another content
C37_Witness ==
    /\ sysRecords.loaded
    /\ \A i \in SysSlots : sysRecords.slots[i].has
    /\ \E i, j \in SysSlots :
          /\ i < j
          /\ sysRecords.slots[i].version > sysRecords.slots[j].version
          /\ sysRecords.slots[i].version = sysRecords.version - 1
          /\ sysRecords.slots[i].content # sysRecords.slots[7].content

\* ------------------------------------------------- strings holders
\* a run of the background routine over the strings holders
StrRun == strHolders'.run # strHolders.run

\* C38 as stated: a waiting strings holder that no external reference holds
\* is released by the next run of the background routine
C38_UnreferencedReleasedByNextRun ==
    [][StrRun => \A i \in 1..Len(strHolders.waiting) :
                    strHolders.waiting[i].refs = 0
                       => strHolders.waiting[i].id \notin WaitingIds(strHolders'.waiting)]_vars

\* C38: a run of the background routine releases a waiting holder that no
\* external reference holds when no holder before it in the queue is
\* referenced; behind a referenced holder it stays in the queue. The run
\* clears the current holder when it is unreferenced and the queue has been
\* emptied, and otherwise leaves its strings in place: in the holder, or with
\* it in the queue
C38_UnreferencedFrontReleasedByNextRun ==
    [][StrRun =>
         /\ \A i \in 1..Len(strHolders.waiting) :
               (strHolders.waiting[i].id \notin WaitingIds(strHolders'.waiting))
                  <=> (\A j \in 1..i : strHolders.waiting[j].refs = 0)
         /\ IF strHolders.cur.refs = 0
               /\ \A j \in 1..Len(strHolders.waiting) : strHolders.waiting[j].refs = 0
            THEN strHolders'.cur = makeStringsHolder(strHolders.cur.id)
            ELSE \/ strHolders'.cur = strHolders.cur
                 \/ /\ strHolders.cur.holdsIndexes \/ strHolders.cur.bigMem
                    /\ strHolders'.waiting # <<>>
                    /\ strHolders'.waiting[Len(strHolders'.waiting)] = strHolders.cur]_vars

\* a run has just released the unreferenced front holder of a queue of two;
\* the one that was behind it is still referenced and stays
C38_Witness ==
    /\ strHolders.run
    /\ Len(strHolders.waiting) = 1
    /\ strHolders.waiting[1].refs > 0
    /\ strHolders.waiting[1].id = 2
    /\ strHolders.cur.id = 1

\* ------------------------------------------------- Min and Max aggregations
\* the aggregated values
Aggregated == {aggregator.values[i] : i \in 1..Len(aggregator.values)}

\* C39: over a sequence of aggregated values that is not empty, all of them
\* negative included, Max returns the greatest of the values and Min the
\* least
C39_MinMaxOfValues ==
    (aggregator.ret.has /\ aggregator.values # <<>>)
       => /\ aggregator.aggType = "AggMax"
                => /\ aggregator.ret.value \in Aggregated
                   /\ \A v \in Aggregated : v <= aggregator.ret.value
          /\ aggregator.aggType = "AggMin"
                => /\ aggregator.ret.value \in Aggregated
                   /\ \A v \in Aggregated : aggregator.ret.value <= v

\* ------------------------------------------------- cancelCommitCnt
\* the operations that wait for the write lock
WaitingWriters ==
    {t \in CommitThreads : commitCnt.pc[t] = "wait" /\ commitCnt.kind[t] \in TakesWriteLock}

\* the operations that wait for a lock under a guard
WaitingGuarded ==
    {t \in CommitThreads : commitCnt.pc[t] = "wait" /\ commitCnt.kind[t] \in Guarded}

\* C40 as stated: cancelCommitCnt is the number of the writers that wait for
\* the write lock of the namespace, 0 when none waits, also after a lock
\* acquisition that was cancelled or threw
C40_CountsWaitingWriters ==
    commitCnt.cancelCommitCnt = Cardinality(WaitingWriters)

\* C40: cancelCommitCnt is the number of the operations that wait for a lock
\* of the namespace under a counter guard: the guarded writers that wait for
\* the write lock and the commits through a copy that wait for the read
\* lock. It is 0 when no such operation waits, also after a lock acquisition
\* that was cancelled or threw. The writers that take the write lock without
\* a guard are not counted
C40_CountsGuardedWaiters ==
    commitCnt.cancelCommitCnt = Cardinality(WaitingGuarded)

\* the lock acquisition of a guarded writer has just thrown; a guarded
\* writer still waits behind a reader, and the counter counts it alone
C40_Witness ==
    /\ commitCnt.thrown
    /\ commitCnt.kind[1] = "modify" /\ commitCnt.pc[1] = "idle"
    /\ commitCnt.kind[2] = "modify" /\ commitCnt.pc[2] = "wait"
    /\ commitCnt.rlocks = {3}
    /\ commitCnt.cancelCommitCnt = 1


====
